---- MODULE Spec2Model ----
(***************************************************************************)
(* Confidential transfer core of zei (src/src/xfr/lib.rs): classification  *)
(* of a transfer, construction of an XfrBody / XfrNote, and verification   *)
(* of notes and bodies, one at a time and in batches.                      *)
(*                                                                         *)
(* Integers are scaled: a limb has LimbBits bits instead of 32, an asset   *)
(* type has ASSET_TYPE_LENGTH bytes instead of 16.  Commitments, proofs,   *)
(* ciphertexts and signatures are symbolic: a commitment is the pair       *)
(* (value, blinding) with the group operations acting on both components,  *)
(* a proof records the statement it was made for, and a verifier accepts   *)
(* a proof exactly when it was made for the instance at hand and the       *)
(* instance is true.                                                       *)
(***************************************************************************)
EXTENDS Integers, Sequences, FiniteSets, TLC

\* ------------------------------------------------------------------ bounds
MaxRecords == 2
LimbBits == 1
ASSET_TYPE_LENGTH == 2
MaxBatch == 2
MaxTerms == 3
\* the width of the u32 of min_greater_equal_power_of_two
U32Bits == 5

\* ------------------------------------------------------------ arithmetic
RECURSIVE Pow(_, _)
Pow(b, n) ==
  IF n = 0 THEN 1 ELSE b * Pow(b, n - 1)

POW_2_32 ==
  (Pow(2, LimbBits) - 1) + 1

U64_MAX ==
  POW_2_32 * POW_2_32 - 1

\* u128 is to u64 what u64 is to u32: twice the bits
U128_MAX ==
  (U64_MAX + 1) * (U64_MAX + 1) - 1

\* u32::MAX at the width U32Bits
U32_MAX ==
  Pow(2, U32Bits) - 1

\* (n as f64).log2().ceil() as i32: the f64 holds every u32 exactly, log2 of
\* 0 is -inf and the cast saturates at i32::MIN, written -1 here
log2_ceil_as_i32(n) ==
  IF n = 0 THEN -1 ELSE CHOOSE e \in 0..U32Bits : Pow(2, e) >= n /\ \A d \in 0..(e - 1) : Pow(2, d) < n

\* 2.0f64.powi(e) as u32: 2^(i32::MIN) underflows to 0.0, and the cast
\* saturates at u32::MAX
powi_as_u32(e) ==
  IF e < 0 THEN 0 ELSE IF Pow(2, e) > U32_MAX THEN U32_MAX ELSE Pow(2, e)

min_greater_equal_power_of_two(n) ==
  powi_as_u32(log2_ceil_as_i32(n))

\* a split that returns the high limb first
u64_to_u32_pair_swapped(x) ==
  << (x \div POW_2_32) % POW_2_32, x % POW_2_32 >>

\* (x & 0xFFFF_FFFF) as u32, (x >> 32) as u32
u64_to_u32_pair(x) ==
  << x % POW_2_32, (x \div POW_2_32) % POW_2_32 >>

RECURSIVE SumSeq(_)
SumSeq(s) ==
  IF s = << >> THEN 0 ELSE Head(s) + SumSeq(Tail(s))

\* a sum accumulated in a u64
safe_sum_u64_wrapping(terms) ==
  SumSeq(terms) % (U64_MAX + 1)

\* terms.iter().map(u128::from).sum(): accumulated in a u128
safe_sum_u64(terms) ==
  SumSeq(terms) % (U128_MAX + 1)

\* a.iter().sum::<i128>(): accumulated in an i128, two's complement
sum_i128(a) ==
  LET half == (U128_MAX + 1) \div 2
  IN ((SumSeq(a) + half) % (2 * half)) - half

Range(s) ==
  { s[i] : i \in DOMAIN s }

\* ------------------------------------------------------- results, errors
ParameterError == "ParameterError"
XfrCreationAssetAmountError == "XfrCreationAssetAmountError"
XfrVerifyAssetAmountError == "XfrVerifyAssetAmountError"
XfrVerifyConfidentialAmountError == "XfrVerifyConfidentialAmountError"
XfrVerifyConfidentialAssetError == "XfrVerifyConfidentialAssetError"
XfrVerifyAssetMixError == "XfrVerifyAssetMixError"
XfrVerifyMultisigError == "XfrVerifyMultisigError"
XfrVerifyTrackingError == "XfrVerifyTrackingError"
InconsistentStructureError == "InconsistentStructureError"
AssetTracingExtractionError == "AssetTracingExtractionError"
IdentityTracingExtractionError == "IdentityTracingExtractionError"
\* an unwrap() on None: the call aborts, no Result is returned
Panic == "panic"

Ok(v) ==
  [ok |-> TRUE, err |-> "", val |-> v]

Err(e) ==
  [ok |-> FALSE, err |-> e, val |-> [none |-> TRUE]]

Unit ==
  [unit |-> TRUE]

None ==
  [some |-> FALSE]

Some(x) ==
  [some |-> TRUE, val |-> x]

\* ------------------------------------------------------------ asset types
\* [b, 0, ..., 0]: b = 0 is the asset type [0u8; 16] of the doc-tests
AssetTypeOf(b) ==
  [i \in 1..ASSET_TYPE_LENGTH |-> IF i = 1 THEN b ELSE 0]

AssetTypes ==
  { AssetTypeOf(0), AssetTypeOf(1) }

RECURSIVE u8_bigendian_slice_to_u128(_)
u8_bigendian_slice_to_u128(slice) ==
  IF slice = << >> THEN 0
  ELSE Head(slice) * Pow(256, Len(slice) - 1) + u8_bigendian_slice_to_u128(Tail(slice))

asset_type_to_scalar(asset_type) ==
  u8_bigendian_slice_to_u128(asset_type)

\* ------------------------------------------------------------ commitments
Commit(v, r) ==
  [v |-> v, r |-> r]

ComAdd(c1, c2) ==
  [v |-> c1.v + c2.v, r |-> c1.r + c2.r]

ComMul(k, c) ==
  [v |-> k * c.v, r |-> k * c.r]

\* a CompressedRistretto that is the encoding of no point
InvalidPoint ==
  [v |-> -1, r |-> -1]

decompress(c) ==
  IF c = InvalidPoint THEN None ELSE Some(c)

\* ------------------------------------------------------------ records
NonConfidentialAmount(a) ==
  [conf |-> FALSE, plain |-> a, coms |-> << >>]

ConfidentialAmount(c1, c2) ==
  [conf |-> TRUE, plain |-> 0, coms |-> << c1, c2 >>]

NonConfidentialAssetType(t) ==
  [conf |-> FALSE, plain |-> t, coms |-> << >>]

ConfidentialAssetType(c) ==
  [conf |-> TRUE, plain |-> << >>, coms |-> << c >>]

get_amount(xfr_amount) ==
  IF xfr_amount.conf THEN None ELSE Some(xfr_amount.plain)

get_asset_type(xfr_asset_type) ==
  IF xfr_asset_type.conf THEN None ELSE Some(xfr_asset_type.plain)

\* ------------------------------------------------------------ tracer memos
\* tracer encryption keys; asset type AssetTypeOf(1) is traced by "T1"
Tracers ==
  { "T1", "T2" }

\* ciphertext of plaintext pt under enc_key, with encryption randomness rand
Lock(enc_key, pt, rand) ==
  Some([key |-> enc_key, pt |-> pt, rand |-> rand])

AssetTracerMemo(enc_key, lock_amount, lock_asset_type, lock_attributes) ==
  [enc_key |-> enc_key, lock_amount |-> lock_amount,
   lock_asset_type |-> lock_asset_type, lock_attributes |-> lock_attributes]

\* the tracing policies attached to an asset type: a sequence of tracer keys
TracingPolicies(asset_type) ==
  IF asset_type = AssetTypeOf(1) THEN << [enc_key |-> "T1", asset_tracking |-> TRUE] >>
  ELSE << >>

\* ------------------------------------------------------------ asset records
BlindAssetRecord(amount, asset_type, public_key) ==
  [amount |-> amount, asset_type |-> asset_type, public_key |-> public_key]

\* AssetRecord::from_template: the sender's record for (amount, asset_type)
\* sent to public_key, hiding the amount / the asset type as asked; seed
\* stands for the randomness drawn from the prng.
AssetRecordFromTemplate(amount, asset_type, conf_amt, conf_type, public_key, seed) ==
  LET pair == u64_to_u32_pair(amount)
      blinds == IF conf_amt THEN << seed, seed + 1 >> ELSE << 0, 0 >>
      type_blind == IF conf_type THEN seed + 2 ELSE 0
      xfr_amount ==
        IF conf_amt
        THEN ConfidentialAmount(Commit(pair[1], blinds[1]), Commit(pair[2], blinds[2]))
        ELSE NonConfidentialAmount(amount)
      xfr_asset_type ==
        IF conf_type
        THEN ConfidentialAssetType(Commit(asset_type_to_scalar(asset_type), type_blind))
        ELSE NonConfidentialAssetType(asset_type)
      policies == TracingPolicies(asset_type)
      memos ==
        [i \in DOMAIN policies |->
           AssetTracerMemo(policies[i].enc_key,
                           IF conf_amt THEN Lock(policies[i].enc_key, amount, seed) ELSE None,
                           IF conf_type THEN Lock(policies[i].enc_key, asset_type, seed) ELSE None,
                           None)]
  IN [open_asset_record |->
        [blind_asset_record |-> BlindAssetRecord(xfr_amount, xfr_asset_type, public_key),
         amount |-> amount,
         amount_blinds |-> blinds,
         asset_type |-> asset_type,
         type_blind |-> type_blind],
      asset_tracers_memos |-> memos,
      identity_proofs |-> [i \in DOMAIN policies |-> None],
      owner_memo |-> IF conf_amt \/ conf_type THEN Some([blind_share |-> seed]) ELSE None]

\* ------------------------------------------------------------ XfrType
NonConfidential_SingleAsset == "NonConfidential_SingleAsset"
ConfidentialAmount_NonConfidentialAssetType_SingleAsset ==
  "ConfidentialAmount_NonConfidentialAssetType_SingleAsset"
NonConfidentialAmount_ConfidentialAssetType_SingleAsset ==
  "NonConfidentialAmount_ConfidentialAssetType_SingleAsset"
Confidential_SingleAsset == "Confidential_SingleAsset"
Confidential_MultiAsset == "Confidential_MultiAsset"
NonConfidential_MultiAsset == "NonConfidential_MultiAsset"

XfrType ==
  { NonConfidential_SingleAsset,
    ConfidentialAmount_NonConfidentialAssetType_SingleAsset,
    NonConfidentialAmount_ConfidentialAssetType_SingleAsset,
    Confidential_SingleAsset,
    Confidential_MultiAsset,
    NonConfidential_MultiAsset }

\* XfrType::from_inputs_outputs.  The loop over inputs.chain(outputs) only
\* ever sets its four flags, so each flag is "some record satisfies ...".
confidential_amount(record) ==
  record.open_asset_record.blind_asset_record.amount.conf

confidential_asset_type(record) ==
  record.open_asset_record.blind_asset_record.asset_type.conf

\* the flags after the loop over records, asset_type being that of inputs[0]
LoopFlags(asset_type, records) ==
  [multi_asset |->
     \E i \in DOMAIN records : asset_type # records[i].open_asset_record.asset_type,
   confidential_all |->
     \E i \in DOMAIN records :
       confidential_amount(records[i]) /\ confidential_asset_type(records[i]),
   confidential_amount_nonconfidential_asset_type |->
     \E i \in DOMAIN records :
       /\ ~(confidential_amount(records[i]) /\ confidential_asset_type(records[i]))
       /\ confidential_amount(records[i]),
   confidential_asset_type_nonconfidential_amount |->
     \E i \in DOMAIN records :
       /\ ~(confidential_amount(records[i]) /\ confidential_asset_type(records[i]))
       /\ ~confidential_amount(records[i])
       /\ confidential_asset_type(records[i])]

\* a decision that lets the one-sided rows go before the mixed one
XfrTypeOfFlags_one_sided_first(f) ==
  IF f.multi_asset
  THEN IF \/ f.confidential_all
          \/ f.confidential_amount_nonconfidential_asset_type
          \/ f.confidential_asset_type_nonconfidential_amount
       THEN Confidential_MultiAsset
       ELSE NonConfidential_MultiAsset
  ELSE IF f.confidential_all
       THEN Confidential_SingleAsset
       ELSE IF f.confidential_amount_nonconfidential_asset_type
            THEN ConfidentialAmount_NonConfidentialAssetType_SingleAsset
            ELSE IF f.confidential_asset_type_nonconfidential_amount
                 THEN NonConfidentialAmount_ConfidentialAssetType_SingleAsset
                 ELSE NonConfidential_SingleAsset

\* the decision taken on the flags
XfrTypeOfFlags(f) ==
  IF f.multi_asset
  THEN IF \/ f.confidential_all
          \/ f.confidential_amount_nonconfidential_asset_type
          \/ f.confidential_asset_type_nonconfidential_amount
       THEN Confidential_MultiAsset
       ELSE NonConfidential_MultiAsset
  ELSE IF \/ f.confidential_all
          \/ (/\ f.confidential_amount_nonconfidential_asset_type
              /\ f.confidential_asset_type_nonconfidential_amount)
       THEN Confidential_SingleAsset
       ELSE IF f.confidential_amount_nonconfidential_asset_type
            THEN ConfidentialAmount_NonConfidentialAssetType_SingleAsset
            ELSE IF f.confidential_asset_type_nonconfidential_amount
                 THEN NonConfidentialAmount_ConfidentialAssetType_SingleAsset
                 ELSE NonConfidential_SingleAsset

\* a classifier whose loop forgets .chain(outputs_record)
from_inputs_outputs_inputs_only(inputs_record, outputs_record) ==
  IF inputs_record = << >> THEN Panic
  ELSE XfrTypeOfFlags(LoopFlags(inputs_record[1].open_asset_record.asset_type,
                                inputs_record))

\* inputs_record[0] on an empty slice aborts
from_inputs_outputs(inputs_record, outputs_record) ==
  IF inputs_record = << >> THEN Panic
  ELSE XfrTypeOfFlags(LoopFlags(inputs_record[1].open_asset_record.asset_type,
                                inputs_record \o outputs_record))

\* ------------------------------------------------------------ balance checks
\* The HashMap of check_asset_amount / verify_plain_asset_mix: the keys are
\* the asset types met, the value of a key the signed terms pushed for it
\* (+amount for an input, -amount for an output), in push order.
SignedTerms(in_types, in_amounts, out_types, out_amounts, key) ==
  LET ins == [i \in DOMAIN in_types |-> IF in_types[i] = key THEN in_amounts[i] ELSE 0]
      outs == [i \in DOMAIN out_types |-> IF out_types[i] = key THEN 0 - out_amounts[i] ELSE 0]
  IN ins \o outs

\* a balance test that forgets the grouping by asset type
AmountsBalanced_ungrouped(in_types, in_amounts, out_types, out_amounts) ==
  ~(SumSeq(in_amounts) - SumSeq(out_amounts) < 0)

\* the sums of the loop over the map: none is negative
AmountsBalanced(in_types, in_amounts, out_types, out_amounts) ==
  \A key \in Range(in_types) \cup Range(out_types) :
    ~(sum_i128(SignedTerms(in_types, in_amounts, out_types, out_amounts, key)) < 0)

\* a balance check that never fails
check_asset_amount_skipped(inputs, outputs) ==
  Ok(Unit)

check_asset_amount(inputs, outputs) ==
  LET in_types == [i \in DOMAIN inputs |-> inputs[i].open_asset_record.asset_type]
      in_amounts == [i \in DOMAIN inputs |-> inputs[i].open_asset_record.amount]
      out_types == [i \in DOMAIN outputs |-> outputs[i].open_asset_record.asset_type]
      out_amounts == [i \in DOMAIN outputs |-> outputs[i].open_asset_record.amount]
  IN IF AmountsBalanced(in_types, in_amounts, out_types, out_amounts)
     THEN Ok(Unit)
     ELSE Err(XfrCreationAssetAmountError)

\* ------------------------------------------------------------ proofs
\* AssetTypeAndAmountProof: kind is the variant, range / asset / mix its parts
NoProof ==
  [kind |-> "NoProof", range |-> None, asset |-> None, mix |-> None]

ConfAmount(range_pf) ==
  [kind |-> "ConfAmount", range |-> Some(range_pf), asset |-> None, mix |-> None]

ConfAsset(asset_pf) ==
  [kind |-> "ConfAsset", range |-> None, asset |-> Some(asset_pf), mix |-> None]

ConfAll(range_pf, asset_pf) ==
  [kind |-> "ConfAll", range |-> Some(range_pf), asset |-> Some(asset_pf), mix |-> None]

AssetMix(mix_pf) ==
  [kind |-> "AssetMix", range |-> None, asset |-> None, mix |-> Some(mix_pf)]

Bars(open_records) ==
  [i \in DOMAIN open_records |-> open_records[i].blind_asset_record]

\* the collaborators' provers: a proof is made for the records it is given
range_proof(inputs, outputs) ==
  [proof |-> "RangeProof", stmt |-> << Bars(inputs), Bars(outputs) >>]

asset_proof(inputs, outputs) ==
  [proof |-> "AssetEqualityProof", stmt |-> << Bars(inputs), Bars(outputs) >>]

\* the commitments of a mixing tuple (amount, type_scalar, amount_blind, type_blind)
MixTupleComs(tuples) ==
  [i \in DOMAIN tuples |-> << Commit(tuples[i][1], tuples[i][3]), Commit(tuples[i][2], tuples[i][4]) >>]

prove_asset_mixing(ins, out) ==
  [proof |-> "AssetMixProof", stmt |-> << MixTupleComs(ins), MixTupleComs(out) >>]

\* tuples whose amount blind is the blind of the low limb alone
MixTuples_low_blind(open_records) ==
  [i \in DOMAIN open_records |->
     << open_records[i].amount,
        u8_bigendian_slice_to_u128(open_records[i].asset_type),
        open_records[i].amount_blinds[1],
        open_records[i].type_blind >>]

\* tuples whose type_scalar reads the asset type's bytes the other way round
MixTuples_littleendian(open_records) ==
  [i \in DOMAIN open_records |->
     << open_records[i].amount,
        SumSeq([k \in 1..ASSET_TYPE_LENGTH |-> open_records[i].asset_type[k] * Pow(256, k - 1)]),
        open_records[i].amount_blinds[1] + POW_2_32 * open_records[i].amount_blinds[2],
        open_records[i].type_blind >>]

\* the tuples (amount, type_scalar, amount blind, type blind) handed to
\* prove_asset_mixing
MixTuples(open_records) ==
  [i \in DOMAIN open_records |->
     << open_records[i].amount,
        u8_bigendian_slice_to_u128(open_records[i].asset_type),
        open_records[i].amount_blinds[1] + POW_2_32 * open_records[i].amount_blinds[2],
        open_records[i].type_blind >>]

\* gen_xfr_proofs_multi_asset; calls lists the provers invoked, in order
gen_xfr_proofs_multi_asset(inputs, outputs, xfr_type) ==
  LET ins == MixTuples(inputs)
      out == MixTuples(outputs)
  IN CASE xfr_type = Confidential_MultiAsset ->
            [res |-> Ok(AssetMix(prove_asset_mixing(ins, out))),
             calls |-> << "prove_asset_mixing" >>]
       [] xfr_type = NonConfidential_MultiAsset ->
            [res |-> Ok(NoProof), calls |-> << >>]
       [] OTHER ->
            [res |-> Err(XfrCreationAssetAmountError), calls |-> << >>]

\* a dispatch with the two one-sided arms exchanged
gen_xfr_proofs_single_asset_swapped(inputs, outputs, xfr_type) ==
  CASE xfr_type = NonConfidential_SingleAsset ->
         [res |-> Ok(NoProof), calls |-> << >>]
    [] xfr_type = ConfidentialAmount_NonConfidentialAssetType_SingleAsset ->
         [res |-> Ok(ConfAsset(asset_proof(inputs, outputs))),
          calls |-> << "asset_proof" >>]
    [] xfr_type = NonConfidentialAmount_ConfidentialAssetType_SingleAsset ->
         [res |-> Ok(ConfAmount(range_proof(inputs, outputs))),
          calls |-> << "range_proof" >>]
    [] xfr_type = Confidential_SingleAsset ->
         [res |-> Ok(ConfAll(range_proof(inputs, outputs), asset_proof(inputs, outputs))),
          calls |-> << "range_proof", "asset_proof" >>]
    [] OTHER ->
         [res |-> Err(XfrCreationAssetAmountError), calls |-> << >>]

\* gen_xfr_proofs_single_asset
gen_xfr_proofs_single_asset(inputs, outputs, xfr_type) ==
  CASE xfr_type = NonConfidential_SingleAsset ->
         [res |-> Ok(NoProof), calls |-> << >>]
    [] xfr_type = ConfidentialAmount_NonConfidentialAssetType_SingleAsset ->
         [res |-> Ok(ConfAmount(range_proof(inputs, outputs))),
          calls |-> << "range_proof" >>]
    [] xfr_type = NonConfidentialAmount_ConfidentialAssetType_SingleAsset ->
         [res |-> Ok(ConfAsset(asset_proof(inputs, outputs))),
          calls |-> << "asset_proof" >>]
    [] xfr_type = Confidential_SingleAsset ->
         [res |-> Ok(ConfAll(range_proof(inputs, outputs), asset_proof(inputs, outputs))),
          calls |-> << "range_proof", "asset_proof" >>]
    [] OTHER ->
         [res |-> Err(XfrCreationAssetAmountError), calls |-> << >>]

\* asset_amount_tracking_proofs: per record, a proof that the ciphertexts of
\* its tracer memos hold what the record commits to
asset_amount_tracking_proofs(inputs, outputs) ==
  LET records == inputs \o outputs
  IN [i \in DOMAIN records |->
        [proof |-> "TrackingProof",
         stmt |-> << records[i].open_asset_record.blind_asset_record,
                     records[i].asset_tracers_memos >>]]

\* ------------------------------------------------------------ gen_xfr_body
XfrBody(inputs, outputs, proofs, asset_tracing_memos, owners_memos) ==
  [inputs |-> inputs, outputs |-> outputs, proofs |-> proofs,
   asset_tracing_memos |-> asset_tracing_memos, owners_memos |-> owners_memos]

\* memos collected with the outputs' before the inputs'
TracerMemos_outputs_first(inputs, outputs) ==
  LET records == outputs \o inputs
  IN [i \in DOMAIN records |-> records[i].asset_tracers_memos]

\* the tracer memos of the body: inputs.iter().chain(outputs)
TracerMemos(inputs, outputs) ==
  LET records == inputs \o outputs
  IN [i \in DOMAIN records |-> records[i].asset_tracers_memos]

\* res is the Result returned, calls the steps run before returning, xfr_type
\* the classification the body was built under
gen_xfr_body(inputs, outputs) ==
  IF inputs = << >>
  THEN [res |-> Err(ParameterError), calls |-> << >>, xfr_type |-> "not classified"]
  ELSE
    LET xfr_type == from_inputs_outputs(inputs, outputs)
        checked == check_asset_amount(inputs, outputs)
        single_asset == xfr_type \notin { NonConfidential_MultiAsset, Confidential_MultiAsset }
        open_inputs == [i \in DOMAIN inputs |-> inputs[i].open_asset_record]
        open_outputs == [i \in DOMAIN outputs |-> outputs[i].open_asset_record]
        asset_amount_proof ==
          IF single_asset
          THEN gen_xfr_proofs_single_asset(open_inputs, open_outputs, xfr_type)
          ELSE gen_xfr_proofs_multi_asset(open_inputs, open_outputs, xfr_type)
        asset_tracking_proof ==
          [asset_type_and_amount_proofs |-> asset_amount_tracking_proofs(inputs, outputs),
           inputs_identity_proofs |-> [i \in DOMAIN inputs |-> inputs[i].identity_proofs],
           outputs_identity_proofs |-> [i \in DOMAIN outputs |-> outputs[i].identity_proofs]]
        xfr_inputs == [i \in DOMAIN open_inputs |-> open_inputs[i].blind_asset_record]
        xfr_outputs == [i \in DOMAIN open_outputs |-> open_outputs[i].blind_asset_record]
        tracer_memos == TracerMemos(inputs, outputs)
        owner_memos == [i \in DOMAIN outputs |-> outputs[i].owner_memo]
        steps == << "from_inputs_outputs", "check_asset_amount" >>
    IN IF ~checked.ok
       THEN [res |-> checked, calls |-> steps, xfr_type |-> xfr_type]
       ELSE IF ~asset_amount_proof.res.ok
            THEN [res |-> asset_amount_proof.res, calls |-> steps \o asset_amount_proof.calls,
                  xfr_type |-> xfr_type]
            ELSE [res |-> Ok(XfrBody(xfr_inputs, xfr_outputs,
                                     [asset_type_and_amount_proof |-> asset_amount_proof.res.val,
                                      asset_tracking_proof |-> asset_tracking_proof],
                                     tracer_memos, owner_memos)),
                  calls |-> steps \o asset_amount_proof.calls
                              \o << "asset_amount_tracking_proofs" >>,
                  xfr_type |-> xfr_type]

\* ------------------------------------------------------------ signature
\* a key pair is named by its public key
get_pk_ref(key_pair) ==
  key_pair.pk

KeyPair(k) ==
  [pk |-> k, sk |-> k]

\* a key check that only counts the keys
check_keys_length_only(inputs, input_key_pairs) ==
  IF Len(inputs) # Len(input_key_pairs)
  THEN Err(ParameterError)
  ELSE Ok(Unit)

check_keys(inputs, input_key_pairs) ==
  IF Len(inputs) # Len(input_key_pairs)
  THEN Err(ParameterError)
  ELSE IF \E i \in DOMAIN inputs :
            inputs[i].open_asset_record.blind_asset_record.public_key
              # get_pk_ref(input_key_pairs[i])
       THEN Err(ParameterError)
       ELSE Ok(Unit)

\* an encoding that leaves the owners' memos out
Serialize_without_owners_memos(body) ==
  << body.inputs, body.outputs, body.proofs, body.asset_tracing_memos >>

\* the canonical encoding of a body: its fields in declaration order
Serialize(body) ==
  << body.inputs, body.outputs, body.proofs, body.asset_tracing_memos, body.owners_memos >>

sign_multisig(keys, bytes) ==
  [signers |-> [i \in DOMAIN keys |-> keys[i].sk], msg |-> bytes]

verify_multisig(public_keys, bytes, multisig) ==
  IF /\ multisig.signers = public_keys
     /\ multisig.msg = bytes
  THEN Ok(Unit)
  ELSE Err(XfrVerifyMultisigError)

compute_transfer_multisig(body, keys) ==
  Ok(sign_multisig(keys, Serialize(body)))

verify_transfer_multisig(xfr_note) ==
  LET public_keys == [i \in DOMAIN xfr_note.body.inputs |-> xfr_note.body.inputs[i].public_key]
  IN verify_multisig(public_keys, Serialize(xfr_note.body), xfr_note.multisig)

\* ------------------------------------------------------------ gen_xfr_note
gen_xfr_note(inputs, outputs, input_key_pairs) ==
  IF inputs = << >>
  THEN [res |-> Err(ParameterError), calls |-> << >>]
  ELSE
    LET keys_ok == check_keys(inputs, input_key_pairs)
        body == gen_xfr_body(inputs, outputs)
    IN IF ~keys_ok.ok
       THEN [res |-> keys_ok, calls |-> << "check_keys" >>]
       ELSE IF ~body.res.ok
            THEN [res |-> body.res, calls |-> << "check_keys", "gen_xfr_body" >> \o body.calls]
            ELSE [res |-> Ok([body |-> body.res.val,
                              multisig |-> compute_transfer_multisig(body.res.val, input_key_pairs).val]),
                  calls |-> << "check_keys", "gen_xfr_body" >> \o body.calls
                              \o << "compute_transfer_multisig" >>]

\* ------------------------------------------------------------ plain checks
\* x.amount.get_amount().unwrap() over a slice: aborts on a hidden amount
AmountsRevealed(bars) ==
  \A i \in DOMAIN bars : get_amount(bars[i].amount).some

TypesRevealed(bars) ==
  \A i \in DOMAIN bars : get_asset_type(bars[i].asset_type).some

PlainAmounts(bars) ==
  [i \in DOMAIN bars |-> get_amount(bars[i].amount).val]

PlainTypes(bars) ==
  [i \in DOMAIN bars |-> get_asset_type(bars[i].asset_type).val]

verify_plain_amounts(inputs, outputs) ==
  IF ~(AmountsRevealed(inputs) /\ AmountsRevealed(outputs))
  THEN Err(Panic)
  ELSE LET sum_inputs == safe_sum_u64(PlainAmounts(inputs))
           sum_outputs == safe_sum_u64(PlainAmounts(outputs))
       IN IF sum_inputs < sum_outputs
          THEN Err(XfrVerifyAssetAmountError)
          ELSE Ok(Unit)

verify_plain_asset(inputs, outputs) ==
  IF ~(TypesRevealed(inputs) /\ TypesRevealed(outputs))
  THEN Err(Panic)
  ELSE LET list == PlainTypes(inputs) \o PlainTypes(outputs)
       IN IF \A i \in DOMAIN list : list[i] = list[1]
          THEN Ok(Unit)
          ELSE Err(XfrVerifyAssetAmountError)

verify_plain_asset_mix(inputs, outputs) ==
  IF ~(/\ TypesRevealed(inputs) /\ AmountsRevealed(inputs)
       /\ TypesRevealed(outputs) /\ AmountsRevealed(outputs))
  THEN Err(Panic)
  ELSE IF AmountsBalanced(PlainTypes(inputs), PlainAmounts(inputs),
                          PlainTypes(outputs), PlainAmounts(outputs))
       THEN Ok(Unit)
       ELSE Err(XfrVerifyAssetAmountError)

\* ------------------------------------------------------------ batch verifiers
\* what a record commits to (the opening of its commitments, or its plaintext)
BarAmount(bar) ==
  IF bar.amount.conf
  THEN bar.amount.coms[1].v + POW_2_32 * bar.amount.coms[2].v
  ELSE bar.amount.plain

BarTypeScalar(bar) ==
  IF bar.asset_type.conf
  THEN bar.asset_type.coms[1].v
  ELSE asset_type_to_scalar(bar.asset_type.plain)

LimbsInRange(bar) ==
  bar.amount.conf =>
    \A k \in 1..2 : bar.amount.coms[k].v >= 0 /\ bar.amount.coms[k].v < POW_2_32

\* an instance is << inputs, outputs, proof >>
RangeInstanceValid(instance) ==
  /\ instance[3].proof = "RangeProof"
  /\ instance[3].stmt = << instance[1], instance[2] >>
  /\ \A i \in DOMAIN instance[2] : LimbsInRange(instance[2][i])
  /\ SumSeq([i \in DOMAIN instance[1] |-> BarAmount(instance[1][i])])
       >= SumSeq([i \in DOMAIN instance[2] |-> BarAmount(instance[2][i])])

AssetInstanceValid(instance) ==
  LET bars == instance[1] \o instance[2]
  IN /\ instance[3].proof = "AssetEqualityProof"
     /\ instance[3].stmt = << instance[1], instance[2] >>
     /\ \A i \in DOMAIN bars : BarTypeScalar(bars[i]) = BarTypeScalar(bars[1])

\* an AssetMixingInstance: inputs and outputs are (com_amount, com_type) pairs
MixInstanceValid(instance) ==
  LET ins == instance.inputs
      outs == instance.outputs
      types == { ins[i][2].v : i \in DOMAIN ins } \cup { outs[i][2].v : i \in DOMAIN outs }
  IN /\ instance.proof.proof = "AssetMixProof"
     /\ instance.proof.stmt = << ins, outs >>
     /\ \A t \in types :
          SumSeq([i \in DOMAIN ins |-> IF ins[i][2].v = t THEN ins[i][1].v ELSE 0])
            >= SumSeq([i \in DOMAIN outs |-> IF outs[i][2].v = t THEN outs[i][1].v ELSE 0])

batch_verify_confidential_amount(instances) ==
  IF \A i \in DOMAIN instances : RangeInstanceValid(instances[i])
  THEN Ok(Unit)
  ELSE Err(XfrVerifyConfidentialAmountError)

batch_verify_confidential_asset(instances) ==
  IF \A i \in DOMAIN instances : AssetInstanceValid(instances[i])
  THEN Ok(Unit)
  ELSE Err(XfrVerifyConfidentialAssetError)

batch_verify_asset_mixing(instances) ==
  IF \A i \in DOMAIN instances : MixInstanceValid(instances[i])
  THEN Ok(Unit)
  ELSE Err(XfrVerifyAssetMixError)

\* a process_bars that adds the two limb commitments without the 2^32 factor
process_bars_no_shift(bars) ==
  [i \in DOMAIN bars |->
     LET x == bars[i]
         pair == u64_to_u32_pair(x.amount.plain)
         com_amount_low == IF x.amount.conf THEN x.amount.coms[1] ELSE Commit(pair[1], 0)
         com_amount_high == IF x.amount.conf THEN x.amount.coms[2] ELSE Commit(pair[2], 0)
         com_amount == ComAdd(com_amount_low, com_amount_high)
         com_type == IF x.asset_type.conf
                     THEN x.asset_type.coms[1]
                     ELSE Commit(asset_type_to_scalar(x.asset_type.plain), 0)
     IN << com_amount, com_type >>]

\* process_bars of batch_verify_asset_mix
process_bars(bars) ==
  [i \in DOMAIN bars |->
     LET x == bars[i]
         pair == u64_to_u32_pair(x.amount.plain)
         com_amount_low == IF x.amount.conf THEN x.amount.coms[1] ELSE Commit(pair[1], 0)
         com_amount_high == IF x.amount.conf THEN x.amount.coms[2] ELSE Commit(pair[2], 0)
         com_amount == ComAdd(com_amount_low, ComMul(POW_2_32, com_amount_high))
         com_type == IF x.asset_type.conf
                     THEN x.asset_type.coms[1]
                     ELSE Commit(asset_type_to_scalar(x.asset_type.plain), 0)
     IN << com_amount, com_type >>]

\* process_bars unwraps the decompressed limb commitments of a hidden
\* amount: on an invalid encoding the call aborts
batch_verify_asset_mix(bars_instances) ==
  LET asset_mix_instances ==
        [i \in DOMAIN bars_instances |->
           [inputs |-> process_bars(bars_instances[i][1]),
            outputs |-> process_bars(bars_instances[i][2]),
            proof |-> bars_instances[i][3]]]
      decompressed ==
        \A i \in DOMAIN bars_instances :
          LET bars == bars_instances[i][1] \o bars_instances[i][2]
          IN \A k \in DOMAIN bars :
               bars[k].amount.conf =>
                 decompress(bars[k].amount.coms[1]).some /\ decompress(bars[k].amount.coms[2]).some
  IN IF ~decompressed THEN Err(Panic) ELSE batch_verify_asset_mixing(asset_mix_instances)

\* ------------------------------------------------------------ content verification
Call(op, body) ==
  [op |-> op, body |-> body]

\* The arms of the match of batch_verify_xfr_body_asset_records on the proof
\* of body i. acc holds the three pools, the plain checks run so far and the
\* Result of the scan.
ScanConfAll(acc, body, i) ==
  LET proof == body.proofs.asset_type_and_amount_proof
  IN [acc EXCEPT
        !.conf_amount_records = Append(@, << body.inputs, body.outputs, proof.range.val >>),
        !.conf_asset_type_records = Append(@, << body.inputs, body.outputs, proof.asset.val >>)]

ScanConfAmount(acc, body, i) ==
  LET proof == body.proofs.asset_type_and_amount_proof
  IN [acc EXCEPT
        !.conf_amount_records = Append(@, << body.inputs, body.outputs, proof.range.val >>),
        !.calls = Append(@, Call("verify_plain_asset", i)),
        !.res = verify_plain_asset(body.inputs, body.outputs)]

ScanConfAsset(acc, body, i) ==
  LET proof == body.proofs.asset_type_and_amount_proof
      plain == verify_plain_amounts(body.inputs, body.outputs)
  IN [acc EXCEPT
        !.calls = Append(@, Call("verify_plain_amounts", i)),
        !.res = plain,
        !.conf_asset_type_records =
           IF plain.ok
           THEN Append(@, << body.inputs, body.outputs, proof.asset.val >>)
           ELSE @]

\* a NoProof arm that trusts the balance check of the sender
ScanNoProof_unchecked(acc, body, i) ==
  acc

ScanNoProof(acc, body, i) ==
  [acc EXCEPT
     !.calls = Append(@, Call("verify_plain_asset_mix", i)),
     !.res = verify_plain_asset_mix(body.inputs, body.outputs)]

ScanAssetMix(acc, body, i) ==
  LET proof == body.proofs.asset_type_and_amount_proof
  IN [acc EXCEPT
        !.conf_asset_mix_bodies = Append(@, << body.inputs, body.outputs, proof.mix.val >>)]

\* the loop of batch_verify_xfr_body_asset_records from body i on (an error
\* of a plain check ends the scan: the ? operator)
RECURSIVE ScanBodies(_, _, _)
ScanBodies(bodies, i, acc) ==
  IF i > Len(bodies) \/ ~acc.res.ok
  THEN acc
  ELSE
    LET body == bodies[i]
        kind == body.proofs.asset_type_and_amount_proof.kind
    IN CASE kind = "ConfAll" -> ScanBodies(bodies, i + 1, ScanConfAll(acc, body, i))
         [] kind = "ConfAmount" -> ScanBodies(bodies, i + 1, ScanConfAmount(acc, body, i))
         [] kind = "ConfAsset" -> ScanBodies(bodies, i + 1, ScanConfAsset(acc, body, i))
         [] kind = "NoProof" -> ScanBodies(bodies, i + 1, ScanNoProof(acc, body, i))
         [] kind = "AssetMix" -> ScanBodies(bodies, i + 1, ScanAssetMix(acc, body, i))

\* content verification that verifies the pools before it looks at the
\* Result of the scan
batch_verify_xfr_body_asset_records_proofs_first(bodies) ==
  LET scan == ScanBodies(bodies, 1,
                [conf_amount_records |-> << >>,
                 conf_asset_type_records |-> << >>,
                 conf_asset_mix_bodies |-> << >>,
                 calls |-> << >>,
                 res |-> Ok(Unit)])
      amount == batch_verify_confidential_amount(scan.conf_amount_records)
      asset == batch_verify_confidential_asset(scan.conf_asset_type_records)
      mix == batch_verify_asset_mix(scan.conf_asset_mix_bodies)
      c1 == Append(scan.calls, Call("batch_verify_confidential_amount", 0))
      c2 == Append(c1, Call("batch_verify_confidential_asset", 0))
      c3 == Append(c2, Call("batch_verify_asset_mix", 0))
  IN IF ~amount.ok THEN [scan EXCEPT !.res = amount, !.calls = c1]
     ELSE IF ~asset.ok THEN [scan EXCEPT !.res = asset, !.calls = c2]
     ELSE IF ~mix.ok THEN [scan EXCEPT !.res = mix, !.calls = c3]
     ELSE [scan EXCEPT !.calls = c3]

\* batch_verify_xfr_body_asset_records: res is the Result returned; the pools
\* and the calls made are kept beside it
batch_verify_xfr_body_asset_records(bodies) ==
  LET scan == ScanBodies(bodies, 1,
                [conf_amount_records |-> << >>,
                 conf_asset_type_records |-> << >>,
                 conf_asset_mix_bodies |-> << >>,
                 calls |-> << >>,
                 res |-> Ok(Unit)])
      amount == batch_verify_confidential_amount(scan.conf_amount_records)
      asset == batch_verify_confidential_asset(scan.conf_asset_type_records)
      mix == batch_verify_asset_mix(scan.conf_asset_mix_bodies)
      c1 == Append(scan.calls, Call("batch_verify_confidential_amount", 0))
      c2 == Append(c1, Call("batch_verify_confidential_asset", 0))
      c3 == Append(c2, Call("batch_verify_asset_mix", 0))
  IN IF ~scan.res.ok THEN scan
     ELSE IF ~amount.ok THEN [scan EXCEPT !.res = amount, !.calls = c1]
     ELSE IF ~asset.ok THEN [scan EXCEPT !.res = asset, !.calls = c2]
     ELSE [scan EXCEPT !.res = mix, !.calls = c3]

\* ------------------------------------------------------------ tracing proofs
XfrNotePolicies(inputs_tracking_policies, inputs_sig_commitments, outputs_tracking_policies, outputs_sig_commitments) ==
  [inputs_tracking_policies |-> inputs_tracking_policies,
   inputs_sig_commitments |-> inputs_sig_commitments,
   outputs_tracking_policies |-> outputs_tracking_policies,
   outputs_sig_commitments |-> outputs_sig_commitments]

\* the memo of a record holds, for an asset-tracking policy, the ciphertexts
\* of the hidden fields of the record under the policy's key
MemoMatches(bar, memo, policy) ==
  /\ memo.enc_key = policy.enc_key
  /\ memo.lock_amount.some = bar.amount.conf
  /\ memo.lock_amount.some =>
       /\ memo.lock_amount.val.key = policy.enc_key
       /\ memo.lock_amount.val.pt = BarAmount(bar)
  /\ memo.lock_asset_type.some = bar.asset_type.conf
  /\ memo.lock_asset_type.some =>
       /\ memo.lock_asset_type.val.key = policy.enc_key
       /\ asset_type_to_scalar(memo.lock_asset_type.val.pt) = BarTypeScalar(bar)

\* one body against its policies: record k is checked against the k-th
\* policy list (inputs first, then outputs)
TrackingValid(body, policies) ==
  LET bars == body.inputs \o body.outputs
      required == [k \in DOMAIN bars |->
                     IF k <= Len(body.inputs)
                     THEN IF k <= Len(policies.inputs_tracking_policies)
                          THEN policies.inputs_tracking_policies[k] ELSE << >>
                     ELSE IF k - Len(body.inputs) <= Len(policies.outputs_tracking_policies)
                          THEN policies.outputs_tracking_policies[k - Len(body.inputs)]
                          ELSE << >>]
      proofs == body.proofs.asset_tracking_proof.asset_type_and_amount_proofs
  IN /\ Len(body.asset_tracing_memos) = Len(bars)
     /\ Len(proofs) = Len(bars)
     /\ \A k \in DOMAIN bars :
          /\ Len(body.asset_tracing_memos[k]) >= Len(required[k])
          /\ \A j \in DOMAIN required[k] :
               MemoMatches(bars[k], body.asset_tracing_memos[k][j], required[k][j])
          /\ required[k] # << >> =>
               /\ proofs[k].proof = "TrackingProof"
               /\ proofs[k].stmt = << bars[k], body.asset_tracing_memos[k] >>

batch_verify_tracer_tracking_proof(bodies, policies) ==
  IF /\ Len(bodies) = Len(policies)
     /\ \A i \in DOMAIN bodies : TrackingValid(bodies[i], policies[i])
  THEN Ok(Unit)
  ELSE Err(XfrVerifyTrackingError)

\* ------------------------------------------------------------ verification
\* a batch_verify_xfr_bodies that checks the tracing proofs of the first body only
batch_verify_xfr_bodies_first_traced(bodies, policies) ==
  LET content == batch_verify_xfr_body_asset_records(bodies)
      first == 1..(IF bodies = << >> THEN 0 ELSE 1)
  IN IF ~content.res.ok
     THEN [res |-> content.res, content |-> content,
           calls |-> << "batch_verify_xfr_body_asset_records" >>]
     ELSE [res |-> batch_verify_tracer_tracking_proof([i \in first |-> bodies[i]],
                                                      [i \in first |-> policies[i]]),
           content |-> content,
           calls |-> << "batch_verify_xfr_body_asset_records",
                        "batch_verify_tracer_tracking_proof" >>]

\* batch_verify_xfr_bodies: content holds what content verification did
batch_verify_xfr_bodies(bodies, policies) ==
  LET content == batch_verify_xfr_body_asset_records(bodies)
  IN IF ~content.res.ok
     THEN [res |-> content.res, content |-> content,
           calls |-> << "batch_verify_xfr_body_asset_records" >>]
     ELSE [res |-> batch_verify_tracer_tracking_proof(bodies, policies),
           content |-> content,
           calls |-> << "batch_verify_xfr_body_asset_records",
                        "batch_verify_tracer_tracking_proof" >>]

verify_xfr_body(body, policies) ==
  batch_verify_xfr_bodies(<< body >>, << policies >>)

\* the first note whose multisignature fails, 0 if none
FirstBadSignature(notes) ==
  IF \E i \in DOMAIN notes : ~verify_transfer_multisig(notes[i]).ok
  THEN CHOOSE i \in DOMAIN notes :
         /\ ~verify_transfer_multisig(notes[i]).ok
         /\ \A j \in 1..(i - 1) : verify_transfer_multisig(notes[j]).ok
  ELSE 0

\* a batch_verify_xfr_notes that verifies the notes one after the other, each
\* one's signature and then its body
RECURSIVE batch_verify_xfr_notes_one_by_one(_, _)
batch_verify_xfr_notes_one_by_one(notes, policies) ==
  IF notes = << >>
  THEN [res |-> Ok(Unit), calls |-> << >>]
  ELSE
    LET sig == verify_transfer_multisig(Head(notes))
        one == batch_verify_xfr_bodies(<< Head(notes).body >>, << Head(policies) >>)
        rest == batch_verify_xfr_notes_one_by_one(Tail(notes), Tail(policies))
    IN IF ~sig.ok
       THEN [res |-> sig, calls |-> << "verify_transfer_multisig" >>]
       ELSE IF ~one.res.ok
            THEN [res |-> one.res, calls |-> << "verify_transfer_multisig" >> \o one.calls]
            ELSE [res |-> rest.res,
                  calls |-> << "verify_transfer_multisig" >> \o one.calls \o rest.calls]

batch_verify_xfr_notes(notes, policies) ==
  LET bad == FirstBadSignature(notes)
      bodies == [i \in DOMAIN notes |-> notes[i].body]
      rest == batch_verify_xfr_bodies(bodies, policies)
  IN IF bad # 0
     THEN [res |-> verify_transfer_multisig(notes[bad]),
           calls |-> [i \in 1..bad |-> "verify_transfer_multisig"]]
     ELSE [res |-> rest.res,
           calls |-> [i \in DOMAIN notes |-> "verify_transfer_multisig"] \o rest.calls]

verify_xfr_note(xfr_note, policies) ==
  batch_verify_xfr_notes(<< xfr_note >>, << policies >>)

\* ------------------------------------------------------------ asset tracking
\* a tracer's key pair: the decryption keys named after the encryption key
\* they belong to
AssetTracerDecKeys(tracer) ==
  [record_data_dec_key |-> tracer, attrs_dec_key |-> tracer]

AssetTracerKeyPair(tracer) ==
  [enc_key |-> tracer, dec_key |-> AssetTracerDecKeys(tracer)]

\* decryption of a ciphertext: the plaintext under the key it was made for,
\* nothing under any other key
Unlock(lock, dec_key) ==
  IF lock.val.key = dec_key THEN Some(lock.val.pt) ELSE None

extract_amount_brute_force(memo, dec_key) ==
  LET pt == Unlock(memo.lock_amount, dec_key)
  IN IF pt.some THEN Ok(pt.val) ELSE Err(AssetTracingExtractionError)

extract_asset_type(memo, dec_key, candidate_asset_types) ==
  LET pt == Unlock(memo.lock_asset_type, dec_key)
  IN IF pt.some /\ pt.val \in Range(candidate_asset_types)
     THEN Ok(pt.val)
     ELSE Err(AssetTracingExtractionError)

extract_identity_attributes_brute_force(memo, dec_key) ==
  LET pt == Unlock(memo.lock_attributes, dec_key)
  IN IF pt.some THEN Ok(pt.val) ELSE Err(IdentityTracingExtractionError)

verify_amount(memo, dec_key, expected) ==
  LET pt == Unlock(memo.lock_amount, dec_key)
  IN IF pt.some /\ pt.val = expected THEN Ok(Unit) ELSE Err(AssetTracingExtractionError)

\* one boolean per enclosed attribute
verify_identity_attributes(memo, dec_key, expected_attributes) ==
  LET pt == Unlock(memo.lock_attributes, dec_key)
      enclosed == memo.lock_attributes.val.pt
  IN IF Len(enclosed) # Len(expected_attributes)
     THEN Err(ParameterError)
     ELSE Ok([i \in DOMAIN enclosed |-> pt.some /\ enclosed[i] = expected_attributes[i]])

RECURSIVE Flatten(_)
Flatten(lists) ==
  IF lists = << >> THEN << >> ELSE Head(lists) \o Flatten(Tail(lists))

\* the inner loop: the memos of one record that carry pub_key, with the record
MemosFor(blind_asset_record, bar_memos, pub_key) ==
  LET found == SelectSeq(bar_memos, LAMBDA memo : memo.enc_key = pub_key)
  IN [j \in DOMAIN found |-> << blind_asset_record, found[j] >>]

\* the loop over inputs.chain(outputs).zip(asset_tracing_memos): zip stops at
\* the shorter of the two
ZippedMemos(xfr_body, pub_key) ==
  LET bars == xfr_body.inputs \o xfr_body.outputs
      zipped == 1..(IF Len(bars) < Len(xfr_body.asset_tracing_memos)
                    THEN Len(bars) ELSE Len(xfr_body.asset_tracing_memos))
  IN Flatten([k \in zipped |-> MemosFor(bars[k], xfr_body.asset_tracing_memos[k], pub_key)])

\* find_tracing_memos without its check of the number of memo lists
find_tracing_memos_unchecked(xfr_body, pub_key) ==
  Ok(ZippedMemos(xfr_body, pub_key))

find_tracing_memos(xfr_body, pub_key) ==
  IF Len(xfr_body.inputs) + Len(xfr_body.outputs) # Len(xfr_body.asset_tracing_memos)
  THEN Err(InconsistentStructureError)
  ELSE Ok(ZippedMemos(xfr_body, pub_key))

RecordData(amount, asset_type, attributes, public_key) ==
  << amount, asset_type, attributes, public_key >>

\* one turn of the loop of extract_tracking_info: the RecordData pushed, or
\* the error the turn returns with
ExtractRecordData(bar_memo, dec_key, candidate_asset_types) ==
  LET blind_asset_record == bar_memo[1]
      memo == bar_memo[2]
      bar_amount == get_amount(blind_asset_record.amount)
      bar_asset_type == get_asset_type(blind_asset_record.asset_type)
      amount ==
        IF ~memo.lock_amount.some
        THEN IF bar_amount.some THEN Ok(bar_amount.val) ELSE Err(InconsistentStructureError)
        ELSE extract_amount_brute_force(memo, dec_key.record_data_dec_key)
      asset_type ==
        IF ~memo.lock_asset_type.some
        THEN IF bar_asset_type.some THEN Ok(bar_asset_type.val)
             ELSE Err(InconsistentStructureError)
        ELSE extract_asset_type(memo, dec_key.record_data_dec_key, candidate_asset_types)
      attributes ==
        IF ~memo.lock_attributes.some
        THEN Ok(<< >>)
        ELSE extract_identity_attributes_brute_force(memo, dec_key.attrs_dec_key)
  IN IF ~amount.ok THEN amount
     ELSE IF ~asset_type.ok THEN asset_type
     ELSE IF ~attributes.ok THEN attributes
     ELSE Ok(RecordData(amount.val, asset_type.val, attributes.val,
                        blind_asset_record.public_key))

\* the first turn of a loop that returns an error, 0 if none does
FirstFailure(turns) ==
  IF \A i \in DOMAIN turns : turns[i].ok THEN 0
  ELSE CHOOSE i \in DOMAIN turns : ~turns[i].ok /\ \A j \in 1..(i - 1) : turns[j].ok

\* an extract_tracking_info that leaves out the pairs it cannot extract
extract_tracking_info_skipping(memos, dec_key, candidate_asset_types) ==
  LET turns == [i \in DOMAIN memos |->
                  ExtractRecordData(memos[i], dec_key, candidate_asset_types)]
      pushed == SelectSeq(turns, LAMBDA turn : turn.ok)
  IN Ok([i \in DOMAIN pushed |-> pushed[i].val])

extract_tracking_info(memos, dec_key, candidate_asset_types) ==
  LET turns == [i \in DOMAIN memos |->
                  ExtractRecordData(memos[i], dec_key, candidate_asset_types)]
      failed == FirstFailure(turns)
  IN IF failed # 0
     THEN Err(turns[failed].err)
     ELSE Ok([i \in DOMAIN memos |-> turns[i].val])

\* a trace_assets that extracts with the keys of the other tracer
trace_assets_other_keys(xfr_body, tracer_keypair, candidate_assets) ==
  LET bars_memos == find_tracing_memos(xfr_body, tracer_keypair.enc_key)
      other == CHOOSE t \in Tracers : t # tracer_keypair.enc_key
  IN IF ~bars_memos.ok THEN bars_memos
     ELSE extract_tracking_info(bars_memos.val, AssetTracerDecKeys(other), candidate_assets)

trace_assets(xfr_body, tracer_keypair, candidate_assets) ==
  LET bars_memos == find_tracing_memos(xfr_body, tracer_keypair.enc_key)
  IN IF ~bars_memos.ok THEN bars_memos
     ELSE extract_tracking_info(bars_memos.val, tracer_keypair.dec_key, candidate_assets)

\* a turn of the loop that also compares the owner of the record
VerifyRecordData_with_owner(bar_memo, dec_key, expected) ==
  LET blind_asset_record == bar_memo[1]
      memo == bar_memo[2]
      bar_amount == get_amount(blind_asset_record.amount)
      bar_asset_type == get_asset_type(blind_asset_record.asset_type)
      amount ==
        IF ~memo.lock_amount.some
        THEN IF ~bar_amount.some THEN Err(InconsistentStructureError)
             ELSE IF bar_amount.val # expected[1] THEN Err(AssetTracingExtractionError)
             ELSE Ok(Unit)
        ELSE verify_amount(memo, dec_key.record_data_dec_key, expected[1])
      asset_type ==
        IF ~memo.lock_asset_type.some
        THEN IF ~bar_asset_type.some THEN Err(InconsistentStructureError)
             ELSE IF bar_asset_type.val # expected[2] THEN Err(AssetTracingExtractionError)
             ELSE Ok(Unit)
        ELSE extract_asset_type(memo, dec_key.record_data_dec_key, << expected[2] >>)
      attributes ==
        IF ~memo.lock_attributes.some
        THEN Ok(Unit)
        ELSE LET result == verify_identity_attributes(memo, dec_key.attrs_dec_key, expected[3])
             IN IF ~result.ok THEN result
                ELSE IF ~(\A i \in DOMAIN result.val : result.val[i])
                     THEN Err(IdentityTracingExtractionError)
                     ELSE Ok(Unit)
  IN IF ~amount.ok THEN amount
     ELSE IF ~asset_type.ok THEN Err(asset_type.err)
     ELSE IF ~attributes.ok THEN attributes
     ELSE IF blind_asset_record.public_key # expected[4] THEN Err(AssetTracingExtractionError)
     ELSE Ok(Unit)

\* one turn of the loop of verify_tracing_memos
VerifyRecordData(bar_memo, dec_key, expected) ==
  LET blind_asset_record == bar_memo[1]
      memo == bar_memo[2]
      bar_amount == get_amount(blind_asset_record.amount)
      bar_asset_type == get_asset_type(blind_asset_record.asset_type)
      amount ==
        IF ~memo.lock_amount.some
        THEN IF ~bar_amount.some THEN Err(InconsistentStructureError)
             ELSE IF bar_amount.val # expected[1] THEN Err(AssetTracingExtractionError)
             ELSE Ok(Unit)
        ELSE verify_amount(memo, dec_key.record_data_dec_key, expected[1])
      asset_type ==
        IF ~memo.lock_asset_type.some
        THEN IF ~bar_asset_type.some THEN Err(InconsistentStructureError)
             ELSE IF bar_asset_type.val # expected[2] THEN Err(AssetTracingExtractionError)
             ELSE Ok(Unit)
        ELSE extract_asset_type(memo, dec_key.record_data_dec_key, << expected[2] >>)
      attributes ==
        IF ~memo.lock_attributes.some
        THEN Ok(Unit)
        ELSE LET result == verify_identity_attributes(memo, dec_key.attrs_dec_key, expected[3])
             IN IF ~result.ok THEN result
                ELSE IF ~(\A i \in DOMAIN result.val : result.val[i])
                     THEN Err(IdentityTracingExtractionError)
                     ELSE Ok(Unit)
  IN IF ~amount.ok THEN amount
     ELSE IF ~asset_type.ok THEN Err(asset_type.err)
     ELSE attributes

\* a verify_tracing_memos that, like zip, stops at the shorter of its two lists
verify_tracing_memos_zipped(memos, dec_key, expected_data) ==
  LET zipped == 1..(IF Len(memos) < Len(expected_data) THEN Len(memos) ELSE Len(expected_data))
      turns == [i \in zipped |-> VerifyRecordData(memos[i], dec_key, expected_data[i])]
      failed == FirstFailure(turns)
  IN IF failed # 0 THEN Err(turns[failed].err) ELSE Ok(Unit)

verify_tracing_memos(memos, dec_key, expected_data) ==
  IF Len(memos) # Len(expected_data)
  THEN Err(ParameterError)
  ELSE LET turns == [i \in DOMAIN memos |->
                       VerifyRecordData(memos[i], dec_key, expected_data[i])]
           failed == FirstFailure(turns)
       IN IF failed # 0 THEN Err(turns[failed].err) ELSE Ok(Unit)

\* a verify_tracing_ctexts that looks the memos up in the inputs only
verify_tracing_ctexts_inputs_only(xfr_body, tracer_keypair, expected_data) ==
  LET inputs_only == [xfr_body EXCEPT !.outputs = << >>,
                        !.asset_tracing_memos = SubSeq(xfr_body.asset_tracing_memos, 1, Len(xfr_body.inputs))]
      bars_memos == find_tracing_memos(inputs_only, tracer_keypair.enc_key)
  IN IF ~bars_memos.ok THEN bars_memos
     ELSE verify_tracing_memos(bars_memos.val, tracer_keypair.dec_key, expected_data)

verify_tracing_ctexts(xfr_body, tracer_keypair, expected_data) ==
  LET bars_memos == find_tracing_memos(xfr_body, tracer_keypair.enc_key)
  IN IF ~bars_memos.ok THEN bars_memos
     ELSE verify_tracing_memos(bars_memos.val, tracer_keypair.dec_key, expected_data)

\* ------------------------------------------------------------ dishonest senders
\* A sender who alters a body and makes its content proofs anew for the
\* altered records: the verifiers then decide on the truth of the instance.
OtherAssetType(asset_type) ==
  IF asset_type = AssetTypeOf(0) THEN AssetTypeOf(1) ELSE AssetTypeOf(0)

ReProve(body) ==
  LET old == body.proofs.asset_type_and_amount_proof
      stmt == << body.inputs, body.outputs >>
      range == [proof |-> "RangeProof", stmt |-> stmt]
      asset == [proof |-> "AssetEqualityProof", stmt |-> stmt]
      mix == [proof |-> "AssetMixProof",
              stmt |-> << process_bars(body.inputs), process_bars(body.outputs) >>]
      new == CASE old.kind = "ConfAmount" -> ConfAmount(range)
               [] old.kind = "ConfAsset" -> ConfAsset(asset)
               [] old.kind = "ConfAll" -> ConfAll(range, asset)
               [] old.kind = "AssetMix" -> AssetMix(mix)
               [] OTHER -> NoProof
  IN [body EXCEPT !.proofs.asset_type_and_amount_proof = new]

\* output j pays one unit more than the sender owns up to
ForgeOutputAmount(body, j) ==
  LET amount == body.outputs[j].amount
      forged == IF amount.conf
                THEN ConfidentialAmount(Commit(amount.coms[1].v + 1, amount.coms[1].r),
                                        amount.coms[2])
                ELSE NonConfidentialAmount(amount.plain + 1)
  IN ReProve([body EXCEPT !.outputs[j].amount = forged])

\* output j is of the other asset type
ForgeOutputType(body, j) ==
  LET asset_type == body.outputs[j].asset_type
      forged == IF asset_type.conf
                THEN ConfidentialAssetType(
                       Commit(asset_type_to_scalar(AssetTypeOf(1)) - asset_type.coms[1].v,
                              asset_type.coms[1].r))
                ELSE NonConfidentialAssetType(OtherAssetType(asset_type.plain))
  IN ReProve([body EXCEPT !.outputs[j].asset_type = forged])

\* output j, its proofs left as they are, hides a field it revealed, or, in a
\* body with an asset-mix proof, has an invalid encoding in place of the
\* commitment to the low limb
Corruptions(body, j) ==
  LET amount == body.outputs[j].amount
      asset_type == body.outputs[j].asset_type
      pair == u64_to_u32_pair(amount.plain)
      hidden_amount == ConfidentialAmount(Commit(pair[1], 0), Commit(pair[2], 0))
      hidden_type == ConfidentialAssetType(Commit(asset_type_to_scalar(asset_type.plain), 0))
      mixed == body.proofs.asset_type_and_amount_proof.kind = "AssetMix"
  IN { [body EXCEPT !.outputs[j].amount = hidden_amount] : x \in { 1 } \ { IF amount.conf THEN 1 ELSE 0 } }
       \cup { [body EXCEPT !.outputs[j].asset_type = hidden_type] : x \in { 1 } \ { IF asset_type.conf THEN 1 ELSE 0 } }
       \cup { [body EXCEPT !.outputs[j].amount = ConfidentialAmount(InvalidPoint, amount.coms[2])] : x \in { 1 } \ { IF amount.conf /\ mixed THEN 0 ELSE 1 } }

\* the tracer memos of record k are withheld
DropMemos(body, k) ==
  [body EXCEPT !.asset_tracing_memos[k] = << >>]

\* ------------------------------------------------------------ the callers' inputs
\* zero, an amount of the low limb, an amount of the high limb
Amounts ==
  { 0, 1, POW_2_32 }

RecordTemplates ==
  [amount : Amounts, asset_type : AssetTypes, conf_amt : BOOLEAN, conf_type : BOOLEAN]

\* the k-th record of a call (inputs first): its owner's key is k
RecordAt(template, k) ==
  AssetRecordFromTemplate(template.amount, template.asset_type,
                          template.conf_amt, template.conf_type, k, 3 * k - 2)

\* the key pairs a caller may pass for the inputs: the owners' keys, one key
\* too few, one too many, or a foreign key at one place
ForeignKey ==
  MaxRecords + 1

OwnersKeys(records) ==
  [i \in DOMAIN records |-> KeyPair(records[i].open_asset_record.blind_asset_record.public_key)]

KeyChoices(records) ==
  LET owners == OwnersKeys(records)
  IN { owners, Append(owners, KeyPair(ForeignKey)) }
       \cup { SubSeq(owners, 1, Len(owners) - 1) : i \in { 1 } \cap DOMAIN owners }
       \cup { [owners EXCEPT ![i] = KeyPair(ForeignKey)] : i \in DOMAIN owners }

\* the policies that go with the records of a call
PoliciesOf(ins, outs) ==
  XfrNotePolicies([i \in DOMAIN ins |-> TracingPolicies(ins[i].open_asset_record.asset_type)],
                  [i \in DOMAIN ins |-> None],
                  [i \in DOMAIN outs |-> TracingPolicies(outs[i].open_asset_record.asset_type)],
                  [i \in DOMAIN outs |-> None])

\* ------------------------------------------------------------ state
VARIABLES
  pc,              \* the call made last
  inputs,          \* the input records of the call
  outputs,         \* the output records of the call
  input_key_pairs, \* the key pairs passed to gen_xfr_note
  body,            \* what gen_xfr_body returned (and what a forger made of it)
  note,            \* what gen_xfr_note returned
  balance,         \* what the two grouped balance tests returned
  dispatch,        \* what the two proof helpers returned, per XfrType
  verified,        \* what verification of the body / the note returned
  notes,           \* the notes of a batch
  policies,        \* their policies, index-aligned
  batch,           \* what batch verification returned
  each,            \* what verification of each body of the batch alone returned
  xfr_body,        \* the body handed to the tracing operations
  ret              \* the operation called last on its own, its arguments and its result

vars ==
  << pc, inputs, outputs, input_key_pairs, body, note, balance, dispatch, verified,
     notes, policies, batch, each, xfr_body, ret >>

callVars ==
  << inputs, outputs, input_key_pairs, body, note, balance, dispatch, verified >>

batchVars ==
  << notes, policies, batch, each >>

traceVars ==
  << xfr_body, ret >>

NotCalled ==
  [res |-> Err("not called"), calls |-> << >>]

InitCall ==
  /\ input_key_pairs = << >>
  /\ body = NotCalled
  /\ note = NotCalled
  /\ balance = NotCalled
  /\ dispatch = NotCalled
  /\ verified = NotCalled

InitBatch ==
  /\ notes = << >>
  /\ policies = << >>
  /\ batch = NotCalled
  /\ each = << >>

InitTrace ==
  /\ xfr_body = None
  /\ ret = NotCalled

Init ==
  /\ pc = "init"
  /\ \E n_in \in 0..MaxRecords :
       \E n_out \in 0..(MaxRecords - n_in) :
         \E ins \in [1..n_in -> RecordTemplates] :
           \E outs \in [1..n_out -> RecordTemplates] :
             /\ inputs = [i \in 1..n_in |-> RecordAt(ins[i], i)]
             /\ outputs = [i \in 1..n_out |-> RecordAt(outs[i], n_in + i)]
  /\ InitCall
  /\ InitBatch
  /\ InitTrace

\* ------------------------------------------------------------ one call
GenXfrBody ==
  /\ pc = "init"
  /\ body' = gen_xfr_body(inputs, outputs)
  /\ pc' = "gen_xfr_body"
  /\ UNCHANGED << inputs, outputs, input_key_pairs, note, balance, dispatch, verified >>
  /\ UNCHANGED batchVars
  /\ UNCHANGED traceVars

GenXfrNote ==
  /\ pc = "init"
  /\ \E keys \in KeyChoices(inputs) :
       /\ input_key_pairs' = keys
       /\ note' = gen_xfr_note(inputs, outputs, keys)
  /\ pc' = "gen_xfr_note"
  /\ UNCHANGED << inputs, outputs, body, balance, dispatch, verified >>
  /\ UNCHANGED batchVars
  /\ UNCHANGED traceVars

\* check_asset_amount on the records, and verify_plain_asset_mix on their
\* blind records
CheckBalance ==
  /\ pc = "init"
  /\ balance' =
       [res |-> check_asset_amount(inputs, outputs),
        plain |-> verify_plain_asset_mix(
                    Bars([i \in DOMAIN inputs |-> inputs[i].open_asset_record]),
                    Bars([i \in DOMAIN outputs |-> outputs[i].open_asset_record])),
        calls |-> << "check_asset_amount", "verify_plain_asset_mix" >>]
  /\ pc' = "check_asset_amount"
  /\ UNCHANGED << inputs, outputs, input_key_pairs, body, note, dispatch, verified >>
  /\ UNCHANGED batchVars
  /\ UNCHANGED traceVars

\* the two proof helpers, each called with every XfrType
GenXfrProofs ==
  /\ pc = "init"
  /\ LET open_inputs == [i \in DOMAIN inputs |-> inputs[i].open_asset_record]
         open_outputs == [i \in DOMAIN outputs |-> outputs[i].open_asset_record]
     IN dispatch' =
          [res |-> Ok(Unit),
           single |-> [t \in XfrType |->
                         gen_xfr_proofs_single_asset(open_inputs, open_outputs, t).res],
           multi |-> [t \in XfrType |->
                        gen_xfr_proofs_multi_asset(open_inputs, open_outputs, t).res],
           calls |-> << "gen_xfr_proofs_single_asset", "gen_xfr_proofs_multi_asset" >>]
  /\ pc' = "gen_xfr_proofs"
  /\ UNCHANGED << inputs, outputs, input_key_pairs, body, note, balance, verified >>
  /\ UNCHANGED batchVars
  /\ UNCHANGED traceVars

\* a dishonest sender raises an output of the body
ForgeAmount ==
  /\ pc = "gen_xfr_body"
  /\ body.res.ok
  /\ \E j \in DOMAIN body.res.val.outputs :
       body' = [body EXCEPT !.res.val = ForgeOutputAmount(body.res.val, j)]
  /\ pc' = "forged"
  /\ UNCHANGED << inputs, outputs, input_key_pairs, note, balance, dispatch, verified >>
  /\ UNCHANGED batchVars
  /\ UNCHANGED traceVars

\* a sender, or the network, damages an output of the body
CorruptBody ==
  /\ pc = "gen_xfr_body"
  /\ body.res.ok
  /\ \E j \in DOMAIN body.res.val.outputs :
       \E corrupted \in Corruptions(body.res.val, j) :
         body' = [body EXCEPT !.res.val = corrupted]
  /\ pc' = "corrupted"
  /\ UNCHANGED << inputs, outputs, input_key_pairs, note, balance, dispatch, verified >>
  /\ UNCHANGED batchVars
  /\ UNCHANGED traceVars

\* XfrType::from_inputs_outputs on its own
Classify ==
  /\ pc = "init"
  /\ ret' = [res |-> from_inputs_outputs(inputs, outputs), calls |-> << "from_inputs_outputs" >>]
  /\ pc' = "from_inputs_outputs"
  /\ UNCHANGED xfr_body
  /\ UNCHANGED callVars
  /\ UNCHANGED batchVars

VerifyXfrBody ==
  /\ pc \in { "gen_xfr_body", "forged", "corrupted" }
  /\ body.res.ok
  /\ LET r == verify_xfr_body(body.res.val, PoliciesOf(inputs, outputs))
     IN verified' = [res |-> r.res, calls |-> r.calls]
  /\ pc' = CASE pc = "forged" -> "verify_forged_body"
             [] pc = "corrupted" -> "verify_corrupted_body"
             [] OTHER -> "verify_xfr_body"
  /\ UNCHANGED << inputs, outputs, input_key_pairs, body, note, balance, dispatch >>
  /\ UNCHANGED batchVars
  /\ UNCHANGED traceVars

\* the bodies that differ from the signed one in one field: the owner of the
\* first input or of the first output, the identity proofs, a memo list or
\* an owner memo too many
Alterations(signed) ==
  { [signed EXCEPT !.inputs[1].public_key = ForeignKey],
    [signed EXCEPT !.proofs.asset_tracking_proof.inputs_identity_proofs = << >>],
    [signed EXCEPT !.asset_tracing_memos = Append(@, << >>)],
    [signed EXCEPT !.owners_memos = Append(@, None)] }
    \cup { [signed EXCEPT !.outputs[1].public_key = ForeignKey] : x \in { 1 } \cap DOMAIN signed.outputs }

\* the body of the note is altered after the note was signed
AlterNote ==
  /\ pc = "gen_xfr_note"
  /\ note.res.ok
  /\ \E altered \in Alterations(note.res.val.body) :
       note' = [note EXCEPT !.res.val.body = altered]
  /\ pc' = "altered"
  /\ UNCHANGED << inputs, outputs, input_key_pairs, body, balance, dispatch, verified >>
  /\ UNCHANGED batchVars
  /\ UNCHANGED traceVars

\* verify_transfer_multisig on its own, on the note as signed or altered
VerifyTransferMultisig ==
  /\ pc \in { "gen_xfr_note", "altered" }
  /\ note.res.ok
  /\ ret' = [res |-> verify_transfer_multisig(note.res.val),
             calls |-> << "verify_transfer_multisig" >>]
  /\ pc' = "verify_transfer_multisig"
  /\ UNCHANGED xfr_body
  /\ UNCHANGED callVars
  /\ UNCHANGED batchVars

VerifyXfrNote ==
  /\ pc = "gen_xfr_note"
  /\ note.res.ok
  /\ LET r == verify_xfr_note(note.res.val, PoliciesOf(inputs, outputs))
     IN verified' = [res |-> r.res, calls |-> r.calls]
  /\ pc' = "verify_xfr_note"
  /\ UNCHANGED << inputs, outputs, input_key_pairs, body, note, balance, dispatch >>
  /\ UNCHANGED batchVars
  /\ UNCHANGED traceVars

Next ==
  \/ GenXfrBody
  \/ GenXfrNote
  \/ CheckBalance
  \/ GenXfrProofs
  \/ ForgeAmount
  \/ CorruptBody
  \/ Classify
  \/ AlterNote
  \/ VerifyTransferMultisig
  \/ VerifyXfrBody
  \/ VerifyXfrNote

Spec ==
  Init /\ [][Next]_vars


\* ------------------------------------------------------------ a batch of notes
Template(amount, b, conf_amt, conf_type) ==
  [amount |-> amount, asset_type |-> AssetTypeOf(b),
   conf_amt |-> conf_amt, conf_type |-> conf_type]

\* one transfer per row of the classification table
Scenarios ==
  { [ins |-> << Template(1, 1, FALSE, FALSE) >>,
     outs |-> << Template(1, 1, FALSE, FALSE) >>],
    [ins |-> << Template(POW_2_32, 1, TRUE, FALSE) >>,
     outs |-> << Template(POW_2_32, 1, TRUE, FALSE) >>],
    [ins |-> << Template(1, 1, FALSE, TRUE) >>,
     outs |-> << Template(1, 1, FALSE, TRUE) >>],
    [ins |-> << Template(1, 1, TRUE, TRUE) >>,
     outs |-> << Template(1, 1, TRUE, TRUE) >>],
    [ins |-> << Template(1, 0, FALSE, FALSE), Template(1, 1, FALSE, FALSE) >>,
     outs |-> << Template(1, 1, FALSE, FALSE) >>],
    [ins |-> << Template(POW_2_32, 0, TRUE, TRUE), Template(1, 1, TRUE, TRUE) >>,
     outs |-> << Template(1, 1, TRUE, TRUE) >> ] }

ScenarioInputs(scenario) ==
  [i \in DOMAIN scenario.ins |-> RecordAt(scenario.ins[i], i)]

ScenarioOutputs(scenario) ==
  [i \in DOMAIN scenario.outs |-> RecordAt(scenario.outs[i], Len(scenario.ins) + i)]

\* what the sender of a note does to it
Senders ==
  { "honest", "foreign_signer", "raise_output", "raise_output_after_signing",
    "retype_output", "drop_memos" }

\* the note a sender makes of a scenario: an altered body is signed anew by
\* the owners, except where the sender alters it after signing
NoteOf(scenario, sender) ==
  LET ins == ScenarioInputs(scenario)
      outs == ScenarioOutputs(scenario)
      honest == gen_xfr_note(ins, outs, OwnersKeys(ins)).res.val
      altered == CASE sender \in { "raise_output", "raise_output_after_signing" } ->
                        ForgeOutputAmount(honest.body, 1)
                   [] sender = "retype_output" -> ForgeOutputType(honest.body, 1)
                   [] sender = "drop_memos" -> DropMemos(honest.body, 1)
                   [] OTHER -> honest.body
      multisig == CASE sender = "foreign_signer" ->
                         compute_transfer_multisig(altered,
                           [i \in DOMAIN ins |-> KeyPair(ForeignKey)]).val
                    [] sender = "raise_output_after_signing" -> honest.multisig
                    [] OTHER -> compute_transfer_multisig(altered, OwnersKeys(ins)).val
  IN [body |-> altered, multisig |-> multisig]

Bodies ==
  [i \in DOMAIN notes |-> notes[i].body]

InitB ==
  /\ pc = "collect"
  /\ inputs = << >>
  /\ outputs = << >>
  /\ InitCall
  /\ InitBatch
  /\ InitTrace

AddNote ==
  /\ pc = "collect"
  /\ Len(notes) < MaxBatch
  /\ \E scenario \in Scenarios :
       \E sender \in Senders :
         /\ notes' = Append(notes, NoteOf(scenario, sender))
         /\ policies' = Append(policies, PoliciesOf(ScenarioInputs(scenario),
                                                    ScenarioOutputs(scenario)))
  /\ UNCHANGED << pc, batch, each >>
  /\ UNCHANGED callVars
  /\ UNCHANGED traceVars

BatchVerifyXfrNotes ==
  /\ pc = "collect"
  /\ batch' = batch_verify_xfr_notes(notes, policies)
  /\ pc' = "batch_verify_xfr_notes"
  /\ UNCHANGED << notes, policies, each >>
  /\ UNCHANGED callVars
  /\ UNCHANGED traceVars

BatchVerifyXfrBodies ==
  /\ pc = "collect"
  /\ batch' = batch_verify_xfr_bodies(Bodies, policies)
  /\ pc' = "batch_verify_xfr_bodies"
  /\ UNCHANGED << notes, policies, each >>
  /\ UNCHANGED callVars
  /\ UNCHANGED traceVars

\* verify_xfr_body on each body of the batch that was verified
VerifyEachBody ==
  /\ pc = "batch_verify_xfr_bodies"
  /\ each' = [i \in DOMAIN notes |-> verify_xfr_body(notes[i].body, policies[i]).res]
  /\ pc' = "verify_each_body"
  /\ UNCHANGED << notes, policies, batch >>
  /\ UNCHANGED callVars
  /\ UNCHANGED traceVars

NextB ==
  \/ AddNote
  \/ BatchVerifyXfrNotes
  \/ BatchVerifyXfrBodies
  \/ VerifyEachBody

SpecBatch ==
  InitB /\ [][NextB]_vars

\* ------------------------------------------------------------ tracing a body
\* the identity attributes of the owner of the k-th record
AttributesOf(k) ==
  << k >>

\* the memo a sender attaches for a tracer: ciphertexts of the hidden fields
\* of the record and, when asked, of the owner's identity attributes
TracerMemoOf(tracer, record, with_attributes, k) ==
  LET open == record.open_asset_record
  IN AssetTracerMemo(tracer,
                     IF open.blind_asset_record.amount.conf
                     THEN Lock(tracer, open.amount, k) ELSE None,
                     IF open.blind_asset_record.asset_type.conf
                     THEN Lock(tracer, open.asset_type, k) ELSE None,
                     IF with_attributes THEN Lock(tracer, AttributesOf(k), k) ELSE None)

\* the memo lists a record may carry: none, one memo for "T1", a memo for
\* "T2" followed by one for "T1" with the identity attributes, or a memo
\* for "T1" that encloses nothing whatever the record hides
MemoPlans ==
  { "none", "T1", "T2_T1", "bare" }

MemosOfPlan(plan, record, k) ==
  CASE plan = "none" -> << >>
    [] plan = "T1" -> << TracerMemoOf("T1", record, FALSE, k) >>
    [] plan = "T2_T1" -> << TracerMemoOf("T2", record, FALSE, k),
                            TracerMemoOf("T1", record, TRUE, k) >>
    [] plan = "bare" -> << AssetTracerMemo("T1", None, None, None) >>

TracedKinds ==
  [conf_amt : BOOLEAN, conf_type : BOOLEAN, plan : MemoPlans]

\* the k-th record of a traced transfer, of the traced asset type
TracedRecord(kind, amount, k) ==
  LET record == AssetRecordFromTemplate(amount, AssetTypeOf(1), kind.conf_amt,
                                        kind.conf_type, k, 3 * k - 2)
      memos == MemosOfPlan(kind.plan, record, k)
  IN [record EXCEPT !.asset_tracers_memos = memos,
                    !.identity_proofs = [i \in DOMAIN memos |-> None]]

\* the bodies a tracer may be handed: the body as built, one that lost its
\* last memo list, one with a memo list too many
BodyVariants(xfr_body_built) ==
  LET lists == xfr_body_built.asset_tracing_memos
  IN { xfr_body_built,
       [xfr_body_built EXCEPT !.asset_tracing_memos = SubSeq(lists, 1, Len(lists) - 1)],
       [xfr_body_built EXCEPT !.asset_tracing_memos = Append(lists, << >>)] }

CandidateLists ==
  { << >>, << AssetTypeOf(0) >>, << AssetTypeOf(0), AssetTypeOf(1) >> }

\* what the records of the transfer say a tracer is to learn: one RecordData
\* for each memo made for the tracer, records and memos in order
TracedData(records, tracer) ==
  Flatten([k \in DOMAIN records |->
             LET open == records[k].open_asset_record
                 made == SelectSeq(records[k].asset_tracers_memos,
                                   LAMBDA memo : memo.enc_key = tracer)
             IN [j \in DOMAIN made |->
                   RecordData(open.amount, open.asset_type,
                              IF made[j].lock_attributes.some THEN AttributesOf(k) ELSE << >>,
                              open.blind_asset_record.public_key)]])

\* the data a caller may expect: the data given, the data with one
\* component of its first entry changed, with its last entry missing, with
\* its last entry twice
ExpectedVariants(data) ==
  { data }
    \cup { [data EXCEPT ![1] = RecordData(0, data[1][2], data[1][3], data[1][4])] : i \in { 1 } \cap DOMAIN data }
    \cup { [data EXCEPT ![1] = RecordData(data[1][1], AssetTypeOf(0), data[1][3], data[1][4])] : i \in { 1 } \cap DOMAIN data }
    \cup { [data EXCEPT ![1] = RecordData(data[1][1], data[1][2], << 0 >>, data[1][4])] : i \in { 1 } \cap DOMAIN data }
    \cup { [data EXCEPT ![1] = RecordData(data[1][1], data[1][2], data[1][3], ForeignKey)] : i \in { 1 } \cap DOMAIN data }
    \cup { SubSeq(data, 1, Len(data) - 1) : i \in { 1 } \cap DOMAIN data }
    \cup { Append(data, data[Len(data)]) : i \in { 1 } \cap DOMAIN data }

InitTracing ==
  /\ pc = "tracing"
  /\ \E n_in \in 1..MaxRecords :
       \E n_out \in 0..(MaxRecords - n_in) :
         \E kinds \in [1..(n_in + n_out) -> TracedKinds] :
           /\ inputs = [k \in 1..n_in |-> TracedRecord(kinds[k], POW_2_32 + 1, k)]
           /\ outputs = [k \in 1..n_out |-> TracedRecord(kinds[n_in + k], 1, n_in + k)]
  /\ gen_xfr_body(inputs, outputs).res.ok
  /\ xfr_body = Some(gen_xfr_body(inputs, outputs).res.val)
  /\ ret = NotCalled
  /\ InitCall
  /\ InitBatch

FindTracingMemos ==
  /\ pc = "tracing"
  /\ \E handed \in BodyVariants(xfr_body.val) :
       \E pub_key \in Tracers :
         ret' = [xfr_body |-> handed, pub_key |-> pub_key,
                 res |-> find_tracing_memos(handed, pub_key)]
  /\ pc' = "find_tracing_memos"
  /\ UNCHANGED << inputs, outputs, xfr_body >>
  /\ UNCHANGED callVars
  /\ UNCHANGED batchVars

\* on the memos found for "T1", with the keys of either tracer
ExtractTrackingInfo ==
  /\ pc = "tracing"
  /\ \E tracer \in Tracers :
       \E candidate_asset_types \in CandidateLists :
         LET memos == find_tracing_memos(xfr_body.val, "T1").val
         IN ret' = [memos |-> memos, dec_key |-> AssetTracerDecKeys(tracer),
                    candidate_asset_types |-> candidate_asset_types,
                    res |-> extract_tracking_info(memos, AssetTracerDecKeys(tracer),
                                                  candidate_asset_types)]
  /\ pc' = "extract_tracking_info"
  /\ UNCHANGED << inputs, outputs, xfr_body >>
  /\ UNCHANGED callVars
  /\ UNCHANGED batchVars

TraceAssets ==
  /\ pc = "tracing"
  /\ \E tracer \in Tracers :
       \E candidate_assets \in CandidateLists :
         ret' = [tracer_keypair |-> AssetTracerKeyPair(tracer),
                 candidate_assets |-> candidate_assets,
                 res |-> trace_assets(xfr_body.val, AssetTracerKeyPair(tracer),
                                      candidate_assets)]
  /\ pc' = "trace_assets"
  /\ UNCHANGED << inputs, outputs, xfr_body >>
  /\ UNCHANGED callVars
  /\ UNCHANGED batchVars

\* on the memos found for "T1", with the keys of either tracer
VerifyTracingMemos ==
  /\ pc = "tracing"
  /\ \E tracer \in Tracers :
       \E expected_data \in ExpectedVariants(TracedData(inputs \o outputs, "T1")) :
         LET memos == find_tracing_memos(xfr_body.val, "T1").val
         IN ret' = [memos |-> memos, dec_key |-> AssetTracerDecKeys(tracer),
                    expected_data |-> expected_data,
                    res |-> verify_tracing_memos(memos, AssetTracerDecKeys(tracer),
                                                 expected_data)]
  /\ pc' = "verify_tracing_memos"
  /\ UNCHANGED << inputs, outputs, xfr_body >>
  /\ UNCHANGED callVars
  /\ UNCHANGED batchVars

\* the data expected is what the records say, changed or not, or what
\* trace_assets returned for the tracer
VerifyTracingCtexts ==
  /\ pc = "tracing"
  /\ \E tracer \in Tracers :
       LET traced == { trace_assets(xfr_body.val, AssetTracerKeyPair(tracer), candidates) :
                         candidates \in CandidateLists }
       IN \E expected_data \in ExpectedVariants(TracedData(inputs \o outputs, tracer))
                                 \cup { result.val : result \in { r \in traced : r.ok } } :
            ret' = [tracer_keypair |-> AssetTracerKeyPair(tracer),
                    expected_data |-> expected_data,
                    res |-> verify_tracing_ctexts(xfr_body.val, AssetTracerKeyPair(tracer),
                                                  expected_data)]
  /\ pc' = "verify_tracing_ctexts"
  /\ UNCHANGED << inputs, outputs, xfr_body >>
  /\ UNCHANGED callVars
  /\ UNCHANGED batchVars

NextTracing ==
  \/ FindTracingMemos
  \/ ExtractTrackingInfo
  \/ TraceAssets
  \/ VerifyTracingMemos
  \/ VerifyTracingCtexts

SpecTracing ==
  InitTracing /\ [][NextTracing]_vars

\* ------------------------------------------------------------ amounts
\* the lists of u64 terms of at most MaxTerms terms
TermLists ==
  UNION { [1..n -> 0..U64_MAX] : n \in 0..MaxTerms }

\* records that reveal everything, of the amounts and asset types given
RevealedRecords(amounts, types, first) ==
  [i \in DOMAIN amounts |->
     RecordAt([amount |-> amounts[i], asset_type |-> types[i],
               conf_amt |-> FALSE, conf_type |-> FALSE], first + i)]

InitAmounts ==
  /\ pc = "amounts"
  /\ inputs = << >>
  /\ outputs = << >>
  /\ InitCall
  /\ InitBatch
  /\ InitTrace

SafeSumU64 ==
  /\ pc = "amounts"
  /\ \E terms \in TermLists :
       ret' = [terms |-> terms, res |-> safe_sum_u64(terms)]
  /\ pc' = "safe_sum_u64"
  /\ UNCHANGED xfr_body
  /\ UNCHANGED callVars
  /\ UNCHANGED batchVars

U64ToU32Pair ==
  /\ pc = "amounts"
  /\ \E x \in 0..U64_MAX :
       ret' = [x |-> x, res |-> u64_to_u32_pair(x)]
  /\ pc' = "u64_to_u32_pair"
  /\ UNCHANGED xfr_body
  /\ UNCHANGED callVars
  /\ UNCHANGED batchVars

\* the three balance checks on records that reveal everything, of any u64
\* amounts
CheckAmounts ==
  /\ pc = "amounts"
  /\ \E n_in \in 0..MaxRecords :
       \E n_out \in 0..(MaxRecords - n_in) :
         \E in_amounts \in [1..n_in -> 0..U64_MAX] :
           \E out_amounts \in [1..n_out -> 0..U64_MAX] :
             \E in_types \in [1..n_in -> AssetTypes] :
               \E out_types \in [1..n_out -> AssetTypes] :
                 LET ins == RevealedRecords(in_amounts, in_types, 0)
                     outs == RevealedRecords(out_amounts, out_types, n_in)
                     in_bars == [i \in DOMAIN ins |-> ins[i].open_asset_record.blind_asset_record]
                     out_bars == [i \in DOMAIN outs |-> outs[i].open_asset_record.blind_asset_record]
                 IN /\ inputs' = ins
                    /\ outputs' = outs
                    /\ ret' = [res |-> check_asset_amount(ins, outs),
                               plain_amounts |-> verify_plain_amounts(in_bars, out_bars),
                               plain_asset_mix |-> verify_plain_asset_mix(in_bars, out_bars)]
  /\ pc' = "check_amounts"
  /\ UNCHANGED << input_key_pairs, body, note, balance, dispatch, verified, xfr_body >>
  /\ UNCHANGED batchVars

MinGreaterEqualPowerOfTwo ==
  /\ pc = "amounts"
  /\ \E n \in 0..U32_MAX :
       ret' = [n |-> n, res |-> min_greater_equal_power_of_two(n)]
  /\ pc' = "min_greater_equal_power_of_two"
  /\ UNCHANGED xfr_body
  /\ UNCHANGED callVars
  /\ UNCHANGED batchVars

NextAmounts ==
  \/ MinGreaterEqualPowerOfTwo
  \/ SafeSumU64
  \/ U64ToU32Pair
  \/ CheckAmounts

SpecAmounts ==
  InitAmounts /\ [][NextAmounts]_vars

\* ------------------------------------------------------------ claims
\* the records of the call, inputs first
CallRecords ==
  inputs \o outputs

HidesAmount(record) ==
  record.open_asset_record.blind_asset_record.amount.conf

HidesType(record) ==
  record.open_asset_record.blind_asset_record.asset_type.conf

TableMulti ==
  \E i \in DOMAIN CallRecords :
    CallRecords[i].open_asset_record.asset_type # inputs[1].open_asset_record.asset_type

TableAllConf ==
  \E i \in DOMAIN CallRecords : HidesAmount(CallRecords[i]) /\ HidesType(CallRecords[i])

TableAmtOnly ==
  \E i \in DOMAIN CallRecords : HidesAmount(CallRecords[i]) /\ ~HidesType(CallRecords[i])

TableTypeOnly ==
  \E i \in DOMAIN CallRecords : HidesType(CallRecords[i]) /\ ~HidesAmount(CallRecords[i])

\* the row of the decision table of 4.1 for the records of the call
TableRow ==
  CASE TableMulti /\ (TableAllConf \/ TableAmtOnly \/ TableTypeOnly) ->
         Confidential_MultiAsset
    [] TableMulti /\ ~(TableAllConf \/ TableAmtOnly \/ TableTypeOnly) ->
         NonConfidential_MultiAsset
    [] ~TableMulti /\ (TableAllConf \/ (TableAmtOnly /\ TableTypeOnly)) ->
         Confidential_SingleAsset
    [] ~TableMulti /\ ~TableAllConf /\ TableAmtOnly /\ ~TableTypeOnly ->
         ConfidentialAmount_NonConfidentialAssetType_SingleAsset
    [] ~TableMulti /\ ~TableAllConf /\ ~TableAmtOnly /\ TableTypeOnly ->
         NonConfidentialAmount_ConfidentialAssetType_SingleAsset
    [] ~TableMulti /\ ~TableAllConf /\ ~TableAmtOnly /\ ~TableTypeOnly ->
         NonConfidential_SingleAsset

\* C1: for a non-empty input list, the XfrType under which gen_xfr_body
\* works is the row of the decision table for the records of the call.
C1_ClassifierTable ==
  (pc = "gen_xfr_body" /\ inputs # << >>) => body.xfr_type = TableRow

\* C1 witness: one record hides only its amount, another only its type, all
\* of one asset type: classified Confidential_SingleAsset.
C1_Witness ==
  /\ pc = "gen_xfr_body"
  /\ inputs # << >>
  /\ ~TableMulti /\ ~TableAllConf /\ TableAmtOnly /\ TableTypeOnly
  /\ body.xfr_type = Confidential_SingleAsset

\* C2: a note that gen_xfr_note returned for the records and the owners' keys
\* verifies, under the policies of the records.
C2_HonestRoundTrip ==
  (pc = "verify_xfr_note" /\ note.res.ok) => verified.res = Ok(Unit)

\* C2 witness: a verified Confidential_MultiAsset note one of whose amounts
\* has a non-zero high limb.
C2_Witness ==
  /\ pc = "verify_xfr_note"
  /\ note.res.ok
  /\ TableRow = Confidential_MultiAsset
  /\ \E i \in DOMAIN CallRecords :
       /\ CallRecords[i].open_asset_record.amount >= POW_2_32
       /\ HidesAmount(CallRecords[i])
  /\ verified.res = Ok(Unit)

RECURSIVE TypeSum(_, _)
\* the sum of the cleartext amounts of the records of asset type t
TypeSum(records, t) ==
  IF records = << >> THEN 0
  ELSE (IF Head(records).open_asset_record.asset_type = t
        THEN Head(records).open_asset_record.amount ELSE 0)
       + TypeSum(Tail(records), t)

PerTypeBalanced ==
  \A t \in AssetTypes :
    (\E i \in DOMAIN CallRecords : CallRecords[i].open_asset_record.asset_type = t)
      => TypeSum(inputs, t) - TypeSum(outputs, t) >= 0

FullyRevealed ==
  \A i \in DOMAIN CallRecords : ~HidesAmount(CallRecords[i]) /\ ~HidesType(CallRecords[i])

\* C4: check_asset_amount succeeds exactly when no asset type of the call
\* pays out more than it takes in, and fails with XfrCreationAssetAmountError
\* otherwise; on fully revealed records verify_plain_asset_mix decides the
\* same, failing with XfrVerifyAssetAmountError.
C4_GroupedBalance ==
  pc = "check_asset_amount" =>
    /\ balance.res = IF PerTypeBalanced THEN Ok(Unit) ELSE Err(XfrCreationAssetAmountError)
    /\ FullyRevealed =>
         balance.plain = IF PerTypeBalanced THEN Ok(Unit) ELSE Err(XfrVerifyAssetAmountError)

\* C4 witness: an asset type that occurs only in the outputs, with a positive
\* amount that the inputs' total would cover: both tests fail.
C4_Witness ==
  /\ pc = "check_asset_amount"
  /\ FullyRevealed
  /\ \E j \in DOMAIN outputs :
       /\ outputs[j].open_asset_record.amount > 0
       /\ \A i \in DOMAIN inputs :
            inputs[i].open_asset_record.asset_type # outputs[j].open_asset_record.asset_type
  /\ SumSeq([i \in DOMAIN inputs |-> inputs[i].open_asset_record.amount])
       >= SumSeq([j \in DOMAIN outputs |-> outputs[j].open_asset_record.amount])
  /\ balance.res = Err(XfrCreationAssetAmountError)
  /\ balance.plain = Err(XfrVerifyAssetAmountError)

\* the proof kind of the dispatch tables of 4.2
KindOf(xfr_type) ==
  CASE xfr_type = NonConfidential_SingleAsset -> "NoProof"
    [] xfr_type = ConfidentialAmount_NonConfidentialAssetType_SingleAsset -> "ConfAmount"
    [] xfr_type = NonConfidentialAmount_ConfidentialAssetType_SingleAsset -> "ConfAsset"
    [] xfr_type = Confidential_SingleAsset -> "ConfAll"
    [] xfr_type = NonConfidential_MultiAsset -> "NoProof"
    [] xfr_type = Confidential_MultiAsset -> "AssetMix"

MultiFamily ==
  { NonConfidential_MultiAsset, Confidential_MultiAsset }

\* C5: each helper, for a variant of its family, yields a proof of the kind
\* of the table (NoProof without calling a prover; otherwise whenever its
\* provers succeed), and XfrCreationAssetAmountError for a variant of the
\* other family; the proof of a body that gen_xfr_body returns is of the kind
\* of the table for the classification of the records.
C5_ProofDispatch ==
  /\ pc = "gen_xfr_proofs" =>
       \A t \in XfrType :
         /\ t \in MultiFamily => dispatch.single[t] = Err(XfrCreationAssetAmountError)
         /\ t \notin MultiFamily => dispatch.multi[t] = Err(XfrCreationAssetAmountError)
         /\ (t \notin MultiFamily /\ dispatch.single[t].ok) =>
              dispatch.single[t].val.kind = KindOf(t)
         /\ (t \in MultiFamily /\ dispatch.multi[t].ok) =>
              dispatch.multi[t].val.kind = KindOf(t)
         /\ KindOf(t) = "NoProof" =>
              (IF t \in MultiFamily THEN dispatch.multi[t] ELSE dispatch.single[t]) = Ok(NoProof)
  /\ (pc = "gen_xfr_body" /\ body.res.ok) =>
       body.res.val.proofs.asset_type_and_amount_proof.kind = KindOf(TableRow)

\* C5 witness: both helpers were called with every variant on a call of two
\* records.
C5_Witness ==
  /\ pc = "gen_xfr_proofs"
  /\ Len(inputs) >= 1 /\ Len(outputs) >= 1
  /\ dispatch.single[Confidential_SingleAsset].ok
  /\ dispatch.single[Confidential_SingleAsset].val.kind = "ConfAll"
  /\ dispatch.multi[Confidential_MultiAsset].ok
  /\ dispatch.multi[Confidential_MultiAsset].val.kind = "AssetMix"
  /\ dispatch.single[Confidential_MultiAsset] = Err(XfrCreationAssetAmountError)
  /\ dispatch.multi[Confidential_SingleAsset] = Err(XfrCreationAssetAmountError)

\* some asset type pays out more than it takes in
Overspent ==
  \E t \in AssetTypes : TypeSum(outputs, t) > TypeSum(inputs, t)

Provers ==
  { "range_proof", "asset_proof", "prove_asset_mixing", "asset_amount_tracking_proofs" }

\* the body at hand reveals all its amounts, and its outputs' exceed its inputs'
BodyAmountsRevealed ==
  AmountsRevealed(body.res.val.inputs) /\ AmountsRevealed(body.res.val.outputs)

BodyOverspent ==
  SumSeq(PlainAmounts(body.res.val.outputs)) > SumSeq(PlainAmounts(body.res.val.inputs))

VerificationBalanceSound ==
  (/\ pc \in { "verify_xfr_body", "verify_forged_body" }
   /\ body.res.val.proofs.asset_type_and_amount_proof.kind \in { "NoProof", "ConfAsset" }
   /\ BodyAmountsRevealed
   /\ BodyOverspent)
    => verified.res = Err(XfrVerifyAssetAmountError)

\* C8 as claimed: whenever an asset type is overspent, gen_xfr_body returns
\* XfrCreationAssetAmountError before any proof is built; a body of revealed
\* amounts that pays out more than it takes in is rejected with
\* XfrVerifyAssetAmountError.
C8_AsClaimed ==
  /\ (pc = "gen_xfr_body" /\ Overspent) =>
       /\ body.res = Err(XfrCreationAssetAmountError)
       /\ \A k \in DOMAIN body.calls : body.calls[k] \notin Provers
  /\ VerificationBalanceSound

\* C8 amended: as claimed for a non-empty input list; for an empty input list
\* gen_xfr_body returns ParameterError (no body either, no proof built).
C8_BalanceSoundness ==
  /\ (pc = "gen_xfr_body" /\ Overspent) =>
       /\ ~body.res.ok
       /\ body.res.err = IF inputs = << >> THEN ParameterError
                         ELSE XfrCreationAssetAmountError
       /\ \A k \in DOMAIN body.calls : body.calls[k] \notin Provers
  /\ VerificationBalanceSound

\* C8 witness: a body of revealed amounts under a ConfAsset proof, whose
\* sender raised an output above the inputs: rejected.
C8_Witness ==
  /\ pc = "verify_forged_body"
  /\ body.res.val.proofs.asset_type_and_amount_proof.kind = "ConfAsset"
  /\ BodyAmountsRevealed
  /\ BodyOverspent
  /\ verified.res = Err(XfrVerifyAssetAmountError)

\* C9: a body returned by gen_xfr_body holds the blind records of the inputs
\* and of the outputs in order, one memo list per record, inputs first, and
\* one owner memo per output.
C9_BodyStructure ==
  (pc = "gen_xfr_body" /\ body.res.ok) =>
    LET b == body.res.val
    IN /\ Len(b.asset_tracing_memos) = Len(inputs) + Len(outputs)
       /\ \A i \in DOMAIN inputs : b.asset_tracing_memos[i] = inputs[i].asset_tracers_memos
       /\ \A j \in DOMAIN outputs :
            b.asset_tracing_memos[Len(inputs) + j] = outputs[j].asset_tracers_memos
       /\ Len(b.owners_memos) = Len(outputs)
       /\ \A j \in DOMAIN outputs : b.owners_memos[j] = outputs[j].owner_memo
       /\ Len(b.inputs) = Len(inputs)
       /\ \A i \in DOMAIN inputs :
            b.inputs[i] = inputs[i].open_asset_record.blind_asset_record
       /\ Len(b.outputs) = Len(outputs)
       /\ \A j \in DOMAIN outputs :
            b.outputs[j] = outputs[j].open_asset_record.blind_asset_record

\* C9 witness: a body of one input and one output whose memo lists differ
\* and whose output has an owner memo.
C9_Witness ==
  /\ pc = "gen_xfr_body"
  /\ body.res.ok
  /\ Len(inputs) = 1 /\ Len(outputs) = 1
  /\ inputs[1].asset_tracers_memos # outputs[1].asset_tracers_memos
  /\ outputs[1].owner_memo.some
  /\ body.res.val.asset_tracing_memos[2] = outputs[1].asset_tracers_memos

KeysMismatch ==
  \/ Len(input_key_pairs) # Len(inputs)
  \/ \E i \in DOMAIN inputs :
       inputs[i].open_asset_record.blind_asset_record.public_key # input_key_pairs[i].pk

\* C10: gen_xfr_note returns ParameterError, without building the body, on an
\* empty input list, a wrong number of key pairs or a key pair that is not
\* the input's; gen_xfr_body returns ParameterError on an empty input list
\* before classifying.
C10_ParameterValidation ==
  /\ (pc = "gen_xfr_note" /\ (inputs = << >> \/ KeysMismatch)) =>
       /\ note.res = Err(ParameterError)
       /\ \A k \in DOMAIN note.calls : note.calls[k] # "gen_xfr_body"
  /\ (pc = "gen_xfr_body" /\ inputs = << >>) =>
       /\ body.res = Err(ParameterError)
       /\ body.calls = << >>

\* C10 witness: as many key pairs as inputs, one of them foreign, on a call
\* whose amounts would also fail the balance check.
C10_Witness ==
  /\ pc = "gen_xfr_note"
  /\ inputs # << >>
  /\ Len(input_key_pairs) = Len(inputs)
  /\ KeysMismatch
  /\ Overspent
  /\ note.res = Err(ParameterError)

\* C3: a batch of bodies with index-aligned policies verifies exactly when
\* each of its bodies verifies alone; one failing body fails the batch.
C3_BatchEquivalence ==
  pc = "verify_each_body" =>
    (batch.res.ok <=> \A i \in DOMAIN each : each[i].ok)

\* C3 witness: a batch of two bodies, the first of which verifies alone and
\* the second of which fails its tracing proofs: the batch fails.
C3_Witness ==
  /\ pc = "verify_each_body"
  /\ Len(notes) = 2
  /\ each[1].ok
  /\ each[2] = Err(XfrVerifyTrackingError)
  /\ ~batch.res.ok

SignatureFails(i) ==
  ~verify_transfer_multisig(notes[i]).ok

ContentFails(i) ==
  ~batch_verify_xfr_body_asset_records(<< notes[i].body >>).res.ok

TracingFails(i) ==
  ~batch_verify_tracer_tracking_proof(<< notes[i].body >>, << policies[i] >>).ok

ContentErrors ==
  { XfrVerifyAssetAmountError, XfrVerifyConfidentialAmountError,
    XfrVerifyConfidentialAssetError, XfrVerifyAssetMixError }

\* the stage of verification a call belongs to
Stage(call) ==
  CASE call = "verify_transfer_multisig" -> 1
    [] call = "batch_verify_xfr_body_asset_records" -> 2
    [] call = "batch_verify_tracer_tracking_proof" -> 3

\* C6: batch_verify_xfr_notes runs the signature checks, then content
\* verification, then the tracing proofs; content verification starts only
\* once every note's signature was checked. An invalid signature in any note
\* gives the multisig error whatever else fails; otherwise a content failure
\* in any body gives a content error whatever tracing proof fails;
\* otherwise a tracing failure gives the tracing error.
C6_VerificationOrder ==
  pc = "batch_verify_xfr_notes" =>
    /\ \A k, l \in DOMAIN batch.calls :
         k < l => Stage(batch.calls[k]) <= Stage(batch.calls[l])
    /\ (\E k \in DOMAIN batch.calls : Stage(batch.calls[k]) > 1) =>
         Cardinality({ k \in DOMAIN batch.calls : Stage(batch.calls[k]) = 1 }) = Len(notes)
    /\ (\E i \in DOMAIN notes : SignatureFails(i)) =>
         /\ batch.res = Err(XfrVerifyMultisigError)
         /\ \A k \in DOMAIN batch.calls : Stage(batch.calls[k]) = 1
    /\ ((\A i \in DOMAIN notes : ~SignatureFails(i))
          /\ (\E i \in DOMAIN notes : ContentFails(i))) =>
         /\ ~batch.res.ok
         /\ batch.res.err \in ContentErrors
         /\ \A k \in DOMAIN batch.calls : Stage(batch.calls[k]) < 3
    /\ ((\A i \in DOMAIN notes : ~SignatureFails(i) /\ ~ContentFails(i))
          /\ (\E i \in DOMAIN notes : TracingFails(i))) =>
         batch.res = Err(XfrVerifyTrackingError)
    /\ (\A i \in DOMAIN notes : ~SignatureFails(i) /\ ~ContentFails(i) /\ ~TracingFails(i)) =>
         batch.res = Ok(Unit)

\* C6 witness: the first note of the batch is signed and fails content
\* verification and its tracing proofs, the second has an invalid signature:
\* the multisig error.
C6_Witness ==
  /\ pc = "batch_verify_xfr_notes"
  /\ Len(notes) = 2
  /\ ~SignatureFails(1) /\ ContentFails(1) /\ TracingFails(1)
  /\ SignatureFails(2)
  /\ batch.res = Err(XfrVerifyMultisigError)

KindOfBody(i) ==
  notes[i].body.proofs.asset_type_and_amount_proof.kind

RECURSIVE Pool(_, _, _)
\* one instance per body among the first n whose proof kind is in kinds, in
\* body order, with the part of the proof that the pool is for
Pool(n, kinds, part) ==
  IF n = 0 THEN << >>
  ELSE LET b == notes[n].body
           proof == b.proofs.asset_type_and_amount_proof
           part_of == CASE part = "range" -> proof.range.val
                        [] part = "asset" -> proof.asset.val
                        [] part = "mix" -> proof.mix.val
       IN IF KindOfBody(n) \in kinds
          THEN Append(Pool(n - 1, kinds, part), << b.inputs, b.outputs, part_of >>)
          ELSE Pool(n - 1, kinds, part)

PlainCheckOf(kind) ==
  CASE kind = "ConfAmount" -> "verify_plain_asset"
    [] kind = "ConfAsset" -> "verify_plain_amounts"
    [] kind = "NoProof" -> "verify_plain_asset_mix"

RECURSIVE PlainChecks(_)
\* the plain checks of the first n bodies, in body order
PlainChecks(n) ==
  IF n = 0 THEN << >>
  ELSE IF KindOfBody(n) \in { "ConfAmount", "ConfAsset", "NoProof" }
       THEN Append(PlainChecks(n - 1), Call(PlainCheckOf(KindOfBody(n)), n))
       ELSE PlainChecks(n - 1)

PlainCheckResult(i) ==
  CASE KindOfBody(i) = "ConfAmount" ->
         verify_plain_asset(notes[i].body.inputs, notes[i].body.outputs)
    [] KindOfBody(i) = "ConfAsset" ->
         verify_plain_amounts(notes[i].body.inputs, notes[i].body.outputs)
    [] KindOfBody(i) = "NoProof" ->
         verify_plain_asset_mix(notes[i].body.inputs, notes[i].body.outputs)
    [] OTHER -> Ok(Unit)

BatchVerifierCalls ==
  << Call("batch_verify_confidential_amount", 0),
     Call("batch_verify_confidential_asset", 0),
     Call("batch_verify_asset_mix", 0) >>

\* C7 as claimed: after content verification of a batch, each pool holds one
\* instance per body of its proof kinds, in body order; the plain check of
\* every ConfAmount, ConfAsset and NoProof body was run; each pool was passed
\* once to its batch verifier.
C7_AsClaimed ==
  pc = "batch_verify_xfr_bodies" =>
    LET scan == batch.content
        n == Len(notes)
    IN /\ scan.conf_amount_records = Pool(n, { "ConfAll", "ConfAmount" }, "range")
       /\ scan.conf_asset_type_records = Pool(n, { "ConfAll", "ConfAsset" }, "asset")
       /\ scan.conf_asset_mix_bodies = Pool(n, { "AssetMix" }, "mix")
       /\ scan.calls = PlainChecks(n) \o BatchVerifierCalls

\* the body at which the scan ends: the first whose plain check fails, the
\* last one if none does
ScanEnd ==
  IF \E i \in DOMAIN notes : ~PlainCheckResult(i).ok
  THEN CHOOSE i \in DOMAIN notes :
         /\ ~PlainCheckResult(i).ok
         /\ \A j \in 1..(i - 1) : PlainCheckResult(j).ok
  ELSE Len(notes)

ScanFailed ==
  \E i \in DOMAIN notes : ~PlainCheckResult(i).ok

\* C7 amended: the scan ends at the first body whose plain check fails, with
\* the error of that check and without running a batch verifier; the pools
\* and the plain checks are as claimed for the bodies scanned, except that a
\* ConfAsset body whose plain check fails adds nothing to its pool. After a
\* scan without a failure each pool is passed to its batch verifier at most
\* once, in the order range, asset equality, mix, up to the first that
\* rejects.
C7_ContentPartition ==
  pc = "batch_verify_xfr_bodies" =>
    LET scan == batch.content
        n == ScanEnd
        asset_n == IF ScanFailed /\ KindOfBody(n) = "ConfAsset" THEN n - 1 ELSE n
        verifiers == SubSeq(scan.calls, Len(PlainChecks(n)) + 1, Len(scan.calls))
    IN /\ scan.conf_amount_records = Pool(n, { "ConfAll", "ConfAmount" }, "range")
       /\ scan.conf_asset_type_records = Pool(asset_n, { "ConfAll", "ConfAsset" }, "asset")
       /\ scan.conf_asset_mix_bodies = Pool(n, { "AssetMix" }, "mix")
       /\ SubSeq(scan.calls, 1, Len(PlainChecks(n))) = PlainChecks(n)
       /\ ScanFailed => scan.res = PlainCheckResult(n) /\ verifiers = << >>
       /\ ~ScanFailed =>
            /\ Len(verifiers) \in 1..3
            /\ verifiers = SubSeq(BatchVerifierCalls, 1, Len(verifiers))
            /\ Len(verifiers) < 3 => ~scan.res.ok
            /\ scan.res.ok => verifiers = BatchVerifierCalls

\* C7 witness: a ConfAll body and a NoProof body whose plain check succeeds:
\* one instance in the range pool and one in the asset-equality pool, none in
\* the mix pool, one plain check and the three batch verifiers.
C7_Witness ==
  /\ pc = "batch_verify_xfr_bodies"
  /\ Len(notes) = 2
  /\ KindOfBody(1) = "ConfAll" /\ KindOfBody(2) = "NoProof"
  /\ Len(batch.content.conf_amount_records) = 1
  /\ Len(batch.content.conf_asset_type_records) = 1
  /\ batch.content.conf_asset_mix_bodies = << >>
  /\ batch.content.calls = << Call("verify_plain_asset_mix", 2) >> \o BatchVerifierCalls
  /\ batch.res.ok


\* ------------------------------------------------------------ C11
\* the places of a body's memos made for key: << k, j >> is the j-th memo of
\* the list paired with the k-th record (inputs first)
MemoPlaces(handed, key) ==
  LET lists == handed.asset_tracing_memos
  IN { place \in UNION { { << k, j >> : j \in DOMAIN lists[k] } : k \in DOMAIN lists } :
         lists[place[1]][place[2]].enc_key = key }

\* the position of a place among the places, by record and then by memo
PlaceRank(place, places) ==
  1 + Cardinality({ other \in places :
                      \/ other[1] < place[1]
                      \/ other[1] = place[1] /\ other[2] < place[2] })

\* C11: find_tracing_memos returns InconsistentStructureError exactly when
\* the body has not one memo list per input and output; otherwise it returns
\* one pair (record, memo) for each memo carrying the key, and no other,
\* ordered by record (inputs first) and then by place in the record's list.
C11_FindTracingMemos ==
  pc = "find_tracing_memos" =>
    LET handed == ret.xfr_body
        bars == handed.inputs \o handed.outputs
        lists == handed.asset_tracing_memos
        places == MemoPlaces(handed, ret.pub_key)
    IN /\ (ret.res = Err(InconsistentStructureError)) <=> (Len(bars) # Len(lists))
       /\ Len(bars) = Len(lists) =>
            /\ ret.res.ok
            /\ Len(ret.res.val) = Cardinality(places)
            /\ \A place \in places :
                 ret.res.val[PlaceRank(place, places)]
                   = << bars[place[1]], lists[place[1]][place[2]] >>

\* two records with a memo for the key, one of them with a memo for the other
\* tracer that is left out
C11_Witness ==
  /\ pc = "find_tracing_memos"
  /\ ret.res.ok
  /\ Len(ret.res.val) = 2
  /\ ret.res.val[1][1] # ret.res.val[2][1]
  /\ \E k \in DOMAIN ret.xfr_body.asset_tracing_memos :
       \E j \in DOMAIN ret.xfr_body.asset_tracing_memos[k] :
         ret.xfr_body.asset_tracing_memos[k][j].enc_key # ret.pub_key


\* ------------------------------------------------------------ C12
\* the memo encloses no ciphertext for a field its record hides
LacksAmountLock(bar_memo) ==
  ~bar_memo[2].lock_amount.some /\ bar_memo[1].amount.conf

LacksTypeLock(bar_memo) ==
  ~bar_memo[2].lock_asset_type.some /\ bar_memo[1].asset_type.conf

\* every ciphertext of the memo was made for the keys and the enclosed asset
\* type, if any, is among the candidates
Decryptable(memo, dec_key, candidates) ==
  /\ memo.lock_amount.some => memo.lock_amount.val.key = dec_key.record_data_dec_key
  /\ memo.lock_asset_type.some =>
       /\ memo.lock_asset_type.val.key = dec_key.record_data_dec_key
       /\ \E i \in DOMAIN candidates : candidates[i] = memo.lock_asset_type.val.pt
  /\ memo.lock_attributes.some => memo.lock_attributes.val.key = dec_key.attrs_dec_key

\* C12: on success extract_tracking_info returns one RecordData per pair, in
\* order, with the record's public key; without lock_amount the amount is
\* the one the record reveals, without lock_asset_type the type is the one
\* the record reveals, without lock_attributes the attributes are empty.  A
\* pair whose memo lacks a lock over a field the record hides makes the call
\* fail, with InconsistentStructureError when nothing fails to decrypt, and a
\* failed call returns no list.
C12_ExtractTrackingInfo ==
  pc = "extract_tracking_info" =>
    LET memos == ret.memos
        lacking == { i \in DOMAIN memos : LacksAmountLock(memos[i]) \/ LacksTypeLock(memos[i]) }
    IN /\ ret.res.ok =>
            /\ Len(ret.res.val) = Len(memos)
            /\ \A i \in DOMAIN memos :
                 /\ ret.res.val[i][4] = memos[i][1].public_key
                 /\ ~memos[i][2].lock_amount.some =>
                      /\ ~memos[i][1].amount.conf
                      /\ ret.res.val[i][1] = memos[i][1].amount.plain
                 /\ ~memos[i][2].lock_asset_type.some =>
                      /\ ~memos[i][1].asset_type.conf
                      /\ ret.res.val[i][2] = memos[i][1].asset_type.plain
                 /\ ~memos[i][2].lock_attributes.some => ret.res.val[i][3] = << >>
       /\ lacking # { } => ~ret.res.ok
       /\ ~ret.res.ok => ret.res = Err(ret.res.err)
       /\ (\A i \in DOMAIN memos :
             Decryptable(memos[i][2], ret.dec_key, ret.candidate_asset_types))
            => IF lacking = { } THEN ret.res.ok ELSE ret.res = Err(InconsistentStructureError)

\* two pairs extracted, one from a memo enclosing the amount, one from a memo
\* of a record that reveals it
C12_Witness ==
  /\ pc = "extract_tracking_info"
  /\ ret.res.ok
  /\ Len(ret.memos) = 2
  /\ ret.memos[1][2].lock_amount.some
  /\ ~ret.memos[2][2].lock_amount.some


\* ------------------------------------------------------------ C13
\* the error the claim gives for each of the three checks of a pair, "" when
\* the check passes
AmountCheck(bar_memo, dec_key, expected) ==
  IF LacksAmountLock(bar_memo) THEN InconsistentStructureError
  ELSE IF ~bar_memo[2].lock_amount.some
       THEN IF bar_memo[1].amount.plain # expected[1] THEN AssetTracingExtractionError ELSE ""
       ELSE IF /\ bar_memo[2].lock_amount.val.key = dec_key.record_data_dec_key
               /\ bar_memo[2].lock_amount.val.pt = expected[1]
            THEN "" ELSE AssetTracingExtractionError

TypeCheck(bar_memo, dec_key, expected) ==
  IF LacksTypeLock(bar_memo) THEN InconsistentStructureError
  ELSE IF ~bar_memo[2].lock_asset_type.some
       THEN IF bar_memo[1].asset_type.plain # expected[2] THEN AssetTracingExtractionError ELSE ""
       ELSE IF /\ bar_memo[2].lock_asset_type.val.key = dec_key.record_data_dec_key
               /\ bar_memo[2].lock_asset_type.val.pt = expected[2]
            THEN "" ELSE AssetTracingExtractionError

AttributesCheck(bar_memo, dec_key, expected) ==
  IF ~bar_memo[2].lock_attributes.some THEN ""
  ELSE IF Len(bar_memo[2].lock_attributes.val.pt) # Len(expected[3]) THEN ParameterError
  ELSE IF /\ bar_memo[2].lock_attributes.val.key = dec_key.attrs_dec_key
          /\ bar_memo[2].lock_attributes.val.pt = expected[3]
       THEN "" ELSE IdentityTracingExtractionError

\* the checks of a call in the order claimed: pair by pair, and amount, asset
\* type, attributes within a pair
ChecksInOrder(memos, dec_key, expected_data) ==
  [n \in 1..(3 * Len(memos)) |->
     LET i == (n + 2) \div 3
     IN CASE n % 3 = 1 -> AmountCheck(memos[i], dec_key, expected_data[i])
          [] n % 3 = 2 -> TypeCheck(memos[i], dec_key, expected_data[i])
          [] n % 3 = 0 -> AttributesCheck(memos[i], dec_key, expected_data[i])]

\* C13: verify_tracing_memos returns ParameterError when the numbers of
\* pairs and of expected data differ; otherwise it returns the error of the
\* first check that fails, the checks taken pair by pair and, within a pair,
\* amount, asset type, attributes (a revealed amount or type that differs
\* from the expected one: AssetTracingExtractionError; no lock over a hidden
\* field: InconsistentStructureError; enclosed attributes that differ from
\* the expected ones: IdentityTracingExtractionError), and Ok only if every
\* check of every pair passes.
C13_VerifyTracingMemos ==
  pc = "verify_tracing_memos" =>
    IF Len(ret.memos) # Len(ret.expected_data)
    THEN ret.res = Err(ParameterError)
    ELSE LET checks == ChecksInOrder(ret.memos, ret.dec_key, ret.expected_data)
             failing == { n \in DOMAIN checks : checks[n] # "" }
         IN IF failing = { }
            THEN ret.res = Ok(Unit)
            ELSE \E n \in failing :
                   /\ \A m \in failing : n <= m
                   /\ ret.res = Err(checks[n])

\* a pair whose revealed amount differs from the expected one and whose memo
\* lacks a lock over the hidden asset type: the amount's error is returned
C13_Witness ==
  /\ pc = "verify_tracing_memos"
  /\ Len(ret.memos) = Len(ret.expected_data)
  /\ \E i \in DOMAIN ret.memos :
       /\ \A j \in 1..(i - 1) :
            /\ AmountCheck(ret.memos[j], ret.dec_key, ret.expected_data[j]) = ""
            /\ TypeCheck(ret.memos[j], ret.dec_key, ret.expected_data[j]) = ""
            /\ AttributesCheck(ret.memos[j], ret.dec_key, ret.expected_data[j]) = ""
       /\ ~ret.memos[i][2].lock_amount.some
       /\ AmountCheck(ret.memos[i], ret.dec_key, ret.expected_data[i]) = AssetTracingExtractionError
       /\ TypeCheck(ret.memos[i], ret.dec_key, ret.expected_data[i]) = InconsistentStructureError
  /\ ret.res = Err(AssetTracingExtractionError)


\* ------------------------------------------------------------ C14
\* every memo the records carry for the tracer encloses the fields its
\* record hides
EnclosesHidden(records, tracer) ==
  \A k \in DOMAIN records :
    \A j \in DOMAIN records[k].asset_tracers_memos :
      LET memo == records[k].asset_tracers_memos[j]
          bar == records[k].open_asset_record.blind_asset_record
      IN memo.enc_key = tracer =>
           ~LacksAmountLock(<< bar, memo >>) /\ ~LacksTypeLock(<< bar, memo >>)

ActualTypes(records) ==
  { records[k].open_asset_record.asset_type : k \in DOMAIN records }

\* C14: on a body built by gen_xfr_body from records whose memos for the
\* tracer enclose what the records hide, trace_assets with the tracer's key
\* pair and candidates containing every actual asset type returns, for the
\* records addressed to the tracer and for no other, inputs first, the
\* amount, asset type, attributes and public key of the record.
C14_TracingRoundTrip ==
  /\ pc = "trace_assets"
  /\ EnclosesHidden(inputs \o outputs, ret.tracer_keypair.enc_key)
  /\ ActualTypes(inputs \o outputs) \subseteq Range(ret.candidate_assets)
  => ret.res = Ok(TracedData(inputs \o outputs, ret.tracer_keypair.enc_key))

\* an input that is not addressed to the tracer and one output hiding amount
\* and type, traced as (amount, type, [], public key)
C14_Witness ==
  /\ pc = "trace_assets"
  /\ Len(inputs) = 1
  /\ Len(outputs) = 1
  /\ inputs[1].asset_tracers_memos = << >>
  /\ confidential_amount(outputs[1])
  /\ confidential_asset_type(outputs[1])
  /\ ret.res = Ok(<< RecordData(1, AssetTypeOf(1), << >>, 2) >>)

\* ------------------------------------------------------------ C15
\* C15: whenever trace_assets returns data for a body and a tracer's key pair
\* (with candidates containing the actual asset types), verify_tracing_ctexts
\* on the same body and key pair accepts that data.
C15_VerifyAcceptsTraced ==
  /\ pc = "verify_tracing_ctexts"
  /\ \E candidates \in CandidateLists :
       trace_assets(xfr_body.val, ret.tracer_keypair, candidates) = Ok(ret.expected_data)
  => ret.res = Ok(Unit)

\* data of two records, one of them an output, with an enclosed asset type
\* and enclosed attributes, accepted
C15_Witness ==
  /\ pc = "verify_tracing_ctexts"
  /\ \E candidates \in CandidateLists :
       trace_assets(xfr_body.val, ret.tracer_keypair, candidates) = Ok(ret.expected_data)
  /\ Len(ret.expected_data) = 2
  /\ ret.expected_data[2][4] = outputs[1].open_asset_record.blind_asset_record.public_key
  /\ ret.expected_data[2][3] # << >>
  /\ confidential_asset_type(outputs[1])
  /\ ret.res = Ok(Unit)


\* ------------------------------------------------------------ C16
\* C16: XfrType::from_inputs_outputs returns one of the six variants for
\* every pair of record lists, an empty input list included, and never
\* aborts.
C16_ClassifierTotal ==
  pc = "from_inputs_outputs" => ret.res \in XfrType

\* ------------------------------------------------------------ C17
\* an AssetMix body with a limb commitment that does not decompress
MixUndecompressible(xfr) ==
  /\ xfr.proofs.asset_type_and_amount_proof.kind = "AssetMix"
  /\ \E k \in DOMAIN xfr.outputs :
       /\ xfr.outputs[k].amount.conf
       /\ \E limb \in 1..2 : xfr.outputs[k].amount.coms[limb] = InvalidPoint

\* a body whose plain check has to read a field that a record hides
PlainCheckReadsHidden(xfr) ==
  LET kind == xfr.proofs.asset_type_and_amount_proof.kind
      bars == xfr.inputs \o xfr.outputs
      hides_amount == \E k \in DOMAIN bars : bars[k].amount.conf
      hides_type == \E k \in DOMAIN bars : bars[k].asset_type.conf
  IN \/ kind = "NoProof" /\ (hides_amount \/ hides_type)
     \/ kind = "ConfAmount" /\ hides_type
     \/ kind = "ConfAsset" /\ hides_amount

\* C17: content verification returns InconsistentStructureError, and does
\* not abort, on an AssetMix body with an amount commitment that fails to
\* decompress and on a body whose plain check needs the amount or asset type
\* of a record that hides it.
C17_InconsistencyIsAnError ==
  /\ pc = "verify_corrupted_body"
  /\ MixUndecompressible(body.res.val) \/ PlainCheckReadsHidden(body.res.val)
  => verified.res = Err(InconsistentStructureError)


\* ------------------------------------------------------------ C18
\* the integer whose base-256 digits are bytes, first byte least significant
LittleEndianValue(bytes) ==
  SumSeq([k \in DOMAIN bytes |-> bytes[k] * Pow(256, k - 1)])

\* the same, first byte most significant
BigEndianValue(bytes) ==
  SumSeq([k \in DOMAIN bytes |-> bytes[k] * Pow(256, Len(bytes) - k)])

\* the commitments to the asset types that the body's asset-mix proof was
\* made for, inputs first
MixTypeComs(xfr) ==
  LET stmt == xfr.proofs.asset_type_and_amount_proof.mix.val.stmt
      coms == stmt[1] \o stmt[2]
  IN [k \in DOMAIN coms |-> coms[k][2]]

MixBodyBuilt ==
  /\ pc = "gen_xfr_body"
  /\ body.res.ok
  /\ body.res.val.proofs.asset_type_and_amount_proof.kind = "AssetMix"

CountedSum(terms) ==
  Cardinality({ unit \in UNION { { << i, u >> : u \in 1..terms[i] } : i \in DOMAIN terms } : TRUE })

\* the units of the records of one asset type
CountedOfType(records, asset_type) ==
  CountedSum([i \in DOMAIN records |->
                IF records[i].open_asset_record.asset_type = asset_type
                THEN records[i].open_asset_record.amount ELSE 0])

CountedTotal(records) ==
  CountedSum([i \in DOMAIN records |-> records[i].open_asset_record.amount])

\* C19: safe_sum_u64 returns the exact sum of its terms (0 for no term, no
\* wrap-around with terms equal to u64::MAX); the signed sum per asset type
\* of check_asset_amount and verify_plain_asset_mix is the exact difference
\* of inputs and outputs, so that each balance check decides as exact
\* arithmetic does.
C19_ExactSums ==
  /\ pc = "safe_sum_u64" => ret.res = CountedSum(ret.terms)
  /\ pc = "check_amounts" =>
       LET in_types == [i \in DOMAIN inputs |-> inputs[i].open_asset_record.asset_type]
           in_amounts == [i \in DOMAIN inputs |-> inputs[i].open_asset_record.amount]
           out_types == [i \in DOMAIN outputs |-> outputs[i].open_asset_record.asset_type]
           out_amounts == [i \in DOMAIN outputs |-> outputs[i].open_asset_record.amount]
           balanced == \A t \in AssetTypes : CountedOfType(inputs, t) >= CountedOfType(outputs, t)
       IN /\ \A t \in AssetTypes :
               sum_i128(SignedTerms(in_types, in_amounts, out_types, out_amounts, t))
                 = CountedOfType(inputs, t) - CountedOfType(outputs, t)
          /\ ret.res = IF balanced THEN Ok(Unit) ELSE Err(XfrCreationAssetAmountError)
          /\ ret.plain_asset_mix = IF balanced THEN Ok(Unit) ELSE Err(XfrVerifyAssetAmountError)
          /\ ret.plain_amounts = IF CountedTotal(inputs) >= CountedTotal(outputs)
                                 THEN Ok(Unit) ELSE Err(XfrVerifyAssetAmountError)

\* several terms equal to u64::MAX, summed beyond u64::MAX
C19_Witness ==
  /\ pc = "safe_sum_u64"
  /\ Len(ret.terms) = MaxTerms
  /\ \A i \in DOMAIN ret.terms : ret.terms[i] = U64_MAX
  /\ ret.res = MaxTerms * U64_MAX

\* ------------------------------------------------------------ C20
\* C20: u64_to_u32_pair(a) is (a mod 2^32, a div 2^32), both components are
\* below 2^32 and low + 2^32 * high = a; u64::MAX splits into the two largest
\* limbs, an amount with high limb only into (0, high), an amount below 2^32
\* into (a, 0).
C20_AmountSplit ==
  pc = "u64_to_u32_pair" =>
    LET a == ret.x
        low == ret.res[1]
        high == ret.res[2]
    IN /\ low = a % POW_2_32
       /\ high = a \div POW_2_32
       /\ low < POW_2_32
       /\ high < POW_2_32
       /\ low + POW_2_32 * high = a
       /\ a < POW_2_32 => ret.res = << a, 0 >>
       /\ a = U64_MAX => ret.res = << POW_2_32 - 1, POW_2_32 - 1 >>
       /\ a = U64_MAX - (POW_2_32 - 1) => ret.res = << 0, POW_2_32 - 1 >>

\* the amount 0xFFFFFFFF00000000, split
C20_Witness ==
  /\ pc = "u64_to_u32_pair"
  /\ ret.x = U64_MAX - (POW_2_32 - 1)
  /\ ret.res = << 0, POW_2_32 - 1 >>


\* ------------------------------------------------------------ C21
\* the body gen_xfr_note signed for the records and keys of the call
SignedBody ==
  gen_xfr_body(inputs, outputs).res.val

\* C21: verify_transfer_multisig accepts the note gen_xfr_note returned as
\* long as its body is the one that was signed, and returns the multisig
\* error once any field of the body (inputs, outputs, proofs, memos) differs
\* from it.
C21_SignatureBinding ==
  pc = "verify_transfer_multisig" =>
    ret.res = IF note.res.val.body = SignedBody
              THEN Ok(Unit)
              ELSE Err(XfrVerifyMultisigError)

\* a note of two inputs, one owner memo too many, refused
C21_Witness ==
  /\ pc = "verify_transfer_multisig"
  /\ Len(inputs) = 2
  /\ note.res.val.body.owners_memos # SignedBody.owners_memos
  /\ note.res.val.body.inputs = SignedBody.inputs
  /\ ret.res = Err(XfrVerifyMultisigError)


\* ------------------------------------------------------------ C22
IsPowerOfTwo(x) ==
  \E e \in 0..U32Bits : x = Pow(2, e)

\* C22: min_greater_equal_power_of_two(n) is the least power of two that is
\* not below n, for every u32 n, and 0 for n = 0.
C22_MinPowerOfTwo ==
  pc = "min_greater_equal_power_of_two" =>
    IF ret.n = 0
    THEN ret.res = 0
    ELSE /\ IsPowerOfTwo(ret.res)
         /\ ret.res >= ret.n
         /\ \A p \in ret.n..(ret.res - 1) : ~IsPowerOfTwo(p)

\* below the largest power of two of the type the function is as claimed
C22_UpToHighestPower ==
  (pc = "min_greater_equal_power_of_two" /\ ret.n <= Pow(2, U32Bits - 1)) =>
    IF ret.n = 0
    THEN ret.res = 0
    ELSE /\ IsPowerOfTwo(ret.res)
         /\ ret.res >= ret.n
         /\ \A p \in ret.n..(ret.res - 1) : ~IsPowerOfTwo(p)


\* ------------------------------------------------------------ C23
\* the plain check of body i returns the amount error
PlainFails(i) ==
  PlainCheckResult(i) = Err(XfrVerifyAssetAmountError)

\* the proof of body i of the given part, verified on its own, is rejected
RangeFails(i) ==
  /\ KindOfBody(i) \in { "ConfAll", "ConfAmount" }
  /\ ~batch_verify_confidential_amount(<< << notes[i].body.inputs, notes[i].body.outputs, notes[i].body.proofs.asset_type_and_amount_proof.range.val >> >>).ok

AssetFails(i) ==
  /\ KindOfBody(i) \in { "ConfAll", "ConfAsset" }
  /\ ~batch_verify_confidential_asset(<< << notes[i].body.inputs, notes[i].body.outputs, notes[i].body.proofs.asset_type_and_amount_proof.asset.val >> >>).ok

MixFails(i) ==
  /\ KindOfBody(i) = "AssetMix"
  /\ ~batch_verify_asset_mix(<< << notes[i].body.inputs, notes[i].body.outputs, notes[i].body.proofs.asset_type_and_amount_proof.mix.val >> >>).ok

\* the place of a call in the order of content verification: a plain check
\* at the place of its body, the batch verifiers after every body
CallRank(call) ==
  CASE call.op = "batch_verify_confidential_amount" -> MaxBatch + 1
    [] call.op = "batch_verify_confidential_asset" -> MaxBatch + 2
    [] call.op = "batch_verify_asset_mix" -> MaxBatch + 3
    [] OTHER -> call.body

\* C23: in content verification the plain checks run in body order during
\* the scan and the batch verifiers after it, in the order range, asset
\* equality, mix. A body whose plain check fails makes the result the amount
\* error, with no batch verifier called, whatever proof of whatever body
\* would be rejected; without such a body a rejected range proof gives the
\* range error, else a rejected asset-equality proof the asset error, else a
\* rejected mix proof the mix error.
C23_ErrorPrecedence ==
  pc = "batch_verify_xfr_bodies" =>
    LET res == batch.content.res
        calls == batch.content.calls
        plain == \E i \in DOMAIN notes : PlainFails(i)
        range == \E i \in DOMAIN notes : RangeFails(i)
        asset == \E i \in DOMAIN notes : AssetFails(i)
        mix == \E i \in DOMAIN notes : MixFails(i)
    IN /\ \A k, l \in DOMAIN calls : k < l => CallRank(calls[k]) < CallRank(calls[l])
       /\ plain =>
            /\ res = Err(XfrVerifyAssetAmountError)
            /\ \A k \in DOMAIN calls : CallRank(calls[k]) <= MaxBatch
       /\ (~plain /\ range) => res = Err(XfrVerifyConfidentialAmountError)
       /\ (~plain /\ ~range /\ asset) => res = Err(XfrVerifyConfidentialAssetError)
       /\ (~plain /\ ~range /\ ~asset /\ mix) => res = Err(XfrVerifyAssetMixError)
       /\ (~plain /\ ~range /\ ~asset /\ ~mix) => res = Ok(Unit)

\* C23 witness: the range proof of the first body would be rejected, the
\* plain check of the second fails: the amount error, and that plain check
\* is the only call.
C23_Witness ==
  /\ pc = "batch_verify_xfr_bodies"
  /\ Len(notes) = 2
  /\ RangeFails(1)
  /\ PlainFails(2)
  /\ batch.content.res = Err(XfrVerifyAssetAmountError)
  /\ batch.content.calls = << Call("verify_plain_asset_mix", 2) >>


\* ------------------------------------------------------------ C24
\* the commitments to the amounts that the body's asset-mix proof was made
\* for, inputs first
MixAmountComs(xfr) ==
  LET stmt == xfr.proofs.asset_type_and_amount_proof.mix.val.stmt
      coms == stmt[1] \o stmt[2]
  IN [k \in DOMAIN coms |-> coms[k][1]]

\* C24: for every record of a body with a mixing proof, the amount
\* commitment the verifier computes, com_low + 2^32 * com_high, is
\* Commit(a, r_low + 2^32 * r_high), the commitment to the amount and the
\* combined blind of the prover's tuple; for a record that reveals its
\* amount it is Commit(a, 0).
C24_AmountCommitmentsAgree ==
  MixBodyBuilt =>
    LET records == inputs \o outputs
        bars == body.res.val.inputs \o body.res.val.outputs
        proved == MixAmountComs(body.res.val)
    IN \A k \in DOMAIN records :
         LET open == records[k].open_asset_record
             com_amount == process_bars(<< bars[k] >>)[1][1]
         IN /\ com_amount = Commit(open.amount, open.amount_blinds[1] + POW_2_32 * open.amount_blinds[2])
            /\ com_amount = proved[k]
            /\ ~bars[k].amount.conf => com_amount = Commit(open.amount, 0)

\* a mix body with a hidden amount that has a high limb, under two blinds
\* that are not zero, and with a revealed amount
C24_Witness ==
  /\ MixBodyBuilt
  /\ \E k \in DOMAIN inputs :
       /\ body.res.val.inputs[k].amount.conf
       /\ inputs[k].open_asset_record.amount >= POW_2_32
       /\ inputs[k].open_asset_record.amount_blinds[1] > 0
       /\ inputs[k].open_asset_record.amount_blinds[2] > 0
  /\ \E k \in DOMAIN outputs : ~body.res.val.outputs[k].amount.conf


\* ------------------------------------------------------------ C25
\* gen_xfr_body returned a body for the records of the call
BodyBuilt ==
  /\ pc = "gen_xfr_body"
  /\ body.res.ok

BuiltKind ==
  body.res.val.proofs.asset_type_and_amount_proof.kind

BuiltBars ==
  body.res.val.inputs \o body.res.val.outputs

\* the plain check content verification runs on the body built
BuiltPlainCheck ==
  CASE BuiltKind = "ConfAmount" -> verify_plain_asset(body.res.val.inputs, body.res.val.outputs)
    [] BuiltKind = "ConfAsset" -> verify_plain_amounts(body.res.val.inputs, body.res.val.outputs)
    [] BuiltKind = "NoProof" -> verify_plain_asset_mix(body.res.val.inputs, body.res.val.outputs)

\* C25: in every body gen_xfr_body returns, a ConfAmount proof comes with
\* records that all reveal their asset type, the same one; a ConfAsset proof
\* with records that all reveal their amount; NoProof with records that
\* reveal both. The plain check that content verification runs on such a
\* body finds every field it reads and succeeds.
C25_ProofKindFitsRecords ==
  BodyBuilt =>
    LET content == batch_verify_xfr_body_asset_records(<< body.res.val >>)
    IN /\ BuiltKind = "ConfAmount" =>
            \A k \in DOMAIN BuiltBars :
              /\ ~BuiltBars[k].asset_type.conf
              /\ BuiltBars[k].asset_type.plain = BuiltBars[1].asset_type.plain
       /\ BuiltKind = "ConfAsset" =>
            \A k \in DOMAIN BuiltBars : ~BuiltBars[k].amount.conf
       /\ BuiltKind = "NoProof" =>
            \A k \in DOMAIN BuiltBars :
              ~BuiltBars[k].amount.conf /\ ~BuiltBars[k].asset_type.conf
       /\ BuiltKind \in { "ConfAmount", "ConfAsset", "NoProof" } =>
            /\ BuiltPlainCheck = Ok(Unit)
            /\ content.calls[1] = Call(PlainCheckOf(BuiltKind), 1)
            /\ content.res \notin { Err(Panic), Err(XfrVerifyAssetAmountError) }

\* a ConfAsset body of which one record hides its asset type and another
\* reveals it
C25_Witness ==
  /\ BodyBuilt
  /\ BuiltKind = "ConfAsset"
  /\ \E k, l \in DOMAIN BuiltBars :
       BuiltBars[k].asset_type.conf /\ ~BuiltBars[l].asset_type.conf
  /\ BuiltPlainCheck = Ok(Unit)


\* ------------------------------------------------------------ C26
\* what a caller may expect of the record of memos[i] in place of expected
\* without touching the components that are compared: any public key, and
\* any attributes where the memo has no lock_attributes
UncheckedChoices(memos, expected, i) ==
  LET attributes == IF i \in DOMAIN memos /\ ~memos[i][2].lock_attributes.some
                    THEN { expected[3], << 0 >> }
                    ELSE { expected[3] }
  IN { RecordData(expected[1], expected[2], a, k) : a \in attributes, k \in { expected[4], 1, ForeignKey } }

RECURSIVE SameButUnchecked(_, _, _)
\* the lists of n expected entries that differ from the first n of
\* expected_data in such components only
SameButUnchecked(memos, expected_data, n) ==
  IF n = 0 THEN { << >> }
  ELSE { Append(others, other) : others \in SameButUnchecked(memos, expected_data, n - 1), other \in UncheckedChoices(memos, expected_data[n], n) }

\* C26: the result of verify_tracing_memos is the same for all expected
\* data that agree in the amounts, in the asset types and in the attributes
\* of the entries whose memo has a lock_attributes: the public keys, and the
\* attributes expected for a memo without lock_attributes, have no effect.
C26_UncheckedComponents ==
  pc = "verify_tracing_memos" =>
    \A others \in SameButUnchecked(ret.memos, ret.expected_data, Len(ret.expected_data)) :
      verify_tracing_memos(ret.memos, ret.dec_key, others) = ret.res

\* two memos, the first with a ciphertext of the amount; the data expected
\* name for it a public key that owns no record of the body, and are accepted
C26_Witness ==
  /\ pc = "verify_tracing_memos"
  /\ Len(ret.memos) = 2
  /\ ret.expected_data[1][4] = ForeignKey
  /\ ret.memos[1][1].public_key # ForeignKey
  /\ ~ret.memos[2][2].lock_attributes.some
  /\ ret.memos[1][2].lock_amount.some
  /\ ret.res = Ok(Unit)

====
